---- MODULE Spec2Model ----
(***************************************************************************)
(* A model of lumen's git backend (src/vcs/git.rs): the GitBackend over a *)
(* libgit2 repository handle, its path exclusion filter, its reference    *)
(* validator, its diff renderer and its commit-range enumeration.         *)
(*                                                                         *)
(* Text is modelled as a sequence of one-character strings, so that trim, *)
(* starts_with, contains, split and rsplit are computed character by      *)
(* character as Rust computes them.  Repository paths are UTF-8 strings.  *)
(***************************************************************************)
EXTENDS Integers, Sequences, FiniteSets, TLC

VARIABLES
    commits,     \* the object database's commits: id i is commits[i]
    odb_trees,   \* the object database's tree objects
    head,        \* the commit HEAD (the current branch) resolves to, 0 when unborn
    index,       \* the repository handle's in-memory index (path -> blob, 0 absent)
    index_file,  \* the index file on disk
    workdir,     \* the working tree (path -> blob, 0 absent)
    config,      \* which of user.name / user.email are configured
    last         \* the last operation called on the backend, its arguments and result

vars == <<commits, odb_trees, head, index, index_file, workdir, config, last>>

----------------------------------------------------------------------------
(* Text helpers: Rust's str operations, character by character.            *)

NL == "\n"

Whitespace == {" ", "\t", NL}

RECURSIVE TrimStart(_)
TrimStart(s) ==
    IF s # <<>> /\ Head(s) \in Whitespace THEN TrimStart(Tail(s)) ELSE s

RECURSIVE TrimEnd(_)
TrimEnd(s) ==
    IF s # <<>> /\ s[Len(s)] \in Whitespace
    THEN TrimEnd(SubSeq(s, 1, Len(s) - 1)) ELSE s

\* str::trim
Trim(s) == TrimEnd(TrimStart(s))

\* str::starts_with(pat)
StartsWith(s, pat) ==
    Len(s) >= Len(pat) /\ SubSeq(s, 1, Len(pat)) = pat

\* str::find(pat): the first offset (1-based) where pat occurs, 0 when none
RECURSIVE FindFrom(_, _, _)
FindFrom(s, pat, i) ==
    IF i + Len(pat) - 1 > Len(s) THEN 0
    ELSE IF SubSeq(s, i, i + Len(pat) - 1) = pat THEN i
    ELSE FindFrom(s, pat, i + 1)

\* str::contains(pat)
StrContains(s, pat) == FindFrom(s, pat, 1) # 0

\* str::split(pat).collect(): the pieces between non-overlapping occurrences
\* of pat, found left to right
RECURSIVE StrSplit(_, _)
StrSplit(s, pat) ==
    LET i == FindFrom(s, pat, 1)
    IN  IF i = 0 THEN <<s>>
        ELSE <<SubSeq(s, 1, i - 1)>>
                 \o StrSplit(SubSeq(s, i + Len(pat), Len(s)), pat)

\* str::rsplit(c).next(): the part after the last c, scanning from the end
RECURSIVE RSplitFirst(_, _)
RSplitFirst(s, c) ==
    IF s = <<>> THEN <<>>
    ELSE IF s[Len(s)] = c THEN <<>>
    ELSE RSplitFirst(SubSeq(s, 1, Len(s) - 1), c) \o <<s[Len(s)]>>

\* str::trim_end_matches(c)
RECURSIVE TrimEndMatches(_, _)
TrimEndMatches(s, c) ==
    IF s # <<>> /\ s[Len(s)] = c
    THEN TrimEndMatches(SubSeq(s, 1, Len(s) - 1), c) ELSE s

\* the concatenation of a sequence of strings
RECURSIVE Concat(_)
Concat(ss) == IF ss = <<>> THEN <<>> ELSE Head(ss) \o Concat(Tail(ss))

\* every sequence of at most n elements of S
SeqsUpTo(S, n) == UNION {[1..k -> S] : k \in 0..n}

----------------------------------------------------------------------------
(* Time formatting: format_relative_time, format_git_time, days_to_ymd.    *)
(* The inputs are far from the ends of i64, so no operation overflows.     *)

\* Rust's integer `/` and `%` for a positive divisor: the quotient is
\* truncated toward zero and the remainder has the sign of the dividend
TruncDiv(a, b) == IF a >= 0 THEN a \div b ELSE -((-a) \div b)

TruncRem(a, b) == a - b * TruncDiv(a, b)

DecimalDigits == <<"0", "1", "2", "3", "4", "5", "6", "7", "8", "9">>

\* the decimal digits of n >= 0
RECURSIVE DecDigits(_)
DecDigits(n) ==
    IF n < 10 THEN <<DecimalDigits[n + 1]>>
    ELSE DecDigits(n \div 10) \o <<DecimalDigits[(n % 10) + 1]>>

\* Display of an integer: "{}"
Display(n) == IF n < 0 THEN <<"-">> \o DecDigits(-n) ELSE DecDigits(n)

\* "{:0w}": zeros after the sign up to the width w, nothing cut off
ZeroPad(n, w) ==
    LET ds == DecDigits(IF n < 0 THEN -n ELSE n)
        sign == IF n < 0 THEN <<"-">> ELSE <<>>
        fill == w - Len(ds) - Len(sign)
    IN  sign \o [i \in 1..(IF fill > 0 THEN fill ELSE 0) |-> "0"] \o ds

Sp == <<" ">>

Ago == <<" ","a","g","o">>

\* a plausible slip: the months branch takes 12 months too
format_relative_time_twelve_months(secs_ago) ==
    IF secs_ago < 0 THEN <<"i","n"," ","t","h","e"," ","f","u","t","u","r","e">>
    ELSE IF secs_ago < 60 THEN Display(secs_ago) \o <<" ","s","e","c","o","n","d","s"," ","a","g","o">>
    ELSE LET mins == TruncDiv(secs_ago, 60)
             hours == TruncDiv(mins, 60)
             days == TruncDiv(hours, 24)
             weeks == TruncDiv(days, 7)
             months == TruncDiv(days, 30)
             years == TruncDiv(days, 365)
         IN  IF mins < 60
             THEN Display(mins) \o Sp \o (IF mins = 1 THEN <<"m","i","n","u","t","e">> ELSE <<"m","i","n","u","t","e","s">>) \o Ago
             ELSE IF hours < 24
             THEN Display(hours) \o Sp \o (IF hours = 1 THEN <<"h","o","u","r">> ELSE <<"h","o","u","r","s">>) \o Ago
             ELSE IF days < 7
             THEN Display(days) \o Sp \o (IF days = 1 THEN <<"d","a","y">> ELSE <<"d","a","y","s">>) \o Ago
             ELSE IF weeks < 4
             THEN Display(weeks) \o Sp \o (IF weeks = 1 THEN <<"w","e","e","k">> ELSE <<"w","e","e","k","s">>) \o Ago
             ELSE IF months <= 12
             THEN Display(months) \o Sp \o (IF months = 1 THEN <<"m","o","n","t","h">> ELSE <<"m","o","n","t","h","s">>) \o Ago
             ELSE Display(years) \o Sp \o (IF years = 1 THEN <<"y","e","a","r">> ELSE <<"y","e","a","r","s">>) \o Ago

format_relative_time(secs_ago) ==
    IF secs_ago < 0 THEN <<"i","n"," ","t","h","e"," ","f","u","t","u","r","e">>
    ELSE IF secs_ago < 60 THEN Display(secs_ago) \o <<" ","s","e","c","o","n","d","s"," ","a","g","o">>
    ELSE LET mins == TruncDiv(secs_ago, 60)
             hours == TruncDiv(mins, 60)
             days == TruncDiv(hours, 24)
             weeks == TruncDiv(days, 7)
             months == TruncDiv(days, 30)
             years == TruncDiv(days, 365)
         IN  IF mins < 60
             THEN Display(mins) \o Sp \o (IF mins = 1 THEN <<"m","i","n","u","t","e">> ELSE <<"m","i","n","u","t","e","s">>) \o Ago
             ELSE IF hours < 24
             THEN Display(hours) \o Sp \o (IF hours = 1 THEN <<"h","o","u","r">> ELSE <<"h","o","u","r","s">>) \o Ago
             ELSE IF days < 7
             THEN Display(days) \o Sp \o (IF days = 1 THEN <<"d","a","y">> ELSE <<"d","a","y","s">>) \o Ago
             ELSE IF weeks < 4
             THEN Display(weeks) \o Sp \o (IF weeks = 1 THEN <<"w","e","e","k">> ELSE <<"w","e","e","k","s">>) \o Ago
             ELSE IF months < 12
             THEN Display(months) \o Sp \o (IF months = 1 THEN <<"m","o","n","t","h">> ELSE <<"m","o","n","t","h","s">>) \o Ago
             ELSE Display(years) \o Sp \o (IF years = 1 THEN <<"y","e","a","r">> ELSE <<"y","e","a","r","s">>) \o Ago

\* a plausible slip: the century correction of the year of era is left out
days_to_ymd_no_century(days) ==
    LET z == days + 719468
        era == TruncDiv(IF z >= 0 THEN z ELSE z - 146096, 146097)
        doe == z - era * 146097
        yoe == TruncDiv(doe - TruncDiv(doe, 1460) - TruncDiv(doe, 146096), 365)
        y == yoe + era * 400
        doy == doe - (365 * yoe + TruncDiv(yoe, 4) - TruncDiv(yoe, 100))
        mp == TruncDiv(5 * doy + 2, 153)
        d == doy - TruncDiv(153 * mp + 2, 5) + 1
        m == IF mp < 10 THEN mp + 3 ELSE mp - 9
    IN  <<IF m <= 2 THEN y + 1 ELSE y, m, d>>

\* the day of era, year of era, day of year are u32 and stay in their ranges
days_to_ymd(days) ==
    LET z == days + 719468
        era == TruncDiv(IF z >= 0 THEN z ELSE z - 146096, 146097)
        doe == z - era * 146097
        yoe == TruncDiv(doe - TruncDiv(doe, 1460) + TruncDiv(doe, 36524) - TruncDiv(doe, 146096), 365)
        y == yoe + era * 400
        doy == doe - (365 * yoe + TruncDiv(yoe, 4) - TruncDiv(yoe, 100))
        mp == TruncDiv(5 * doy + 2, 153)
        d == doy - TruncDiv(153 * mp + 2, 5) + 1
        m == IF mp < 10 THEN mp + 3 ELSE mp - 9
    IN  <<IF m <= 2 THEN y + 1 ELSE y, m, d>>

\* a plausible slip: "{}" in place of "{:04}" and "{:02}"
\* The seconds of a git2::Time are an i64, wider than the integers TLC
\* evaluates: a count of seconds is held as hi * 86400 + lo, lo in 0..86399.
I64(hi, lo) == [hi |-> hi, lo |-> lo]

\* w + n for an n of less than a day's seconds in magnitude
I64Add(w, n) ==
    LET lo == w.lo + n
    IN  IF lo < 0 THEN I64(w.hi - 1, lo + 86400)
        ELSE IF lo >= 86400 THEN I64(w.hi + 1, lo - 86400)
        ELSE w

\* w / 86400 of Rust: the quotient rounded toward zero
I64TruncDiv(w) == IF w.hi < 0 /\ w.lo > 0 THEN w.hi + 1 ELSE w.hi

\* w % 86400 of Rust: the remainder has the sign of w
I64TruncRem(w) == IF w.hi < 0 /\ w.lo > 0 THEN w.lo - 86400 ELSE w.lo

format_git_time_unpadded(secs, offset_mins) ==
    LET local_secs == I64Add(secs, offset_mins * 60)
        days == I64TruncDiv(local_secs)
        time_of_day == TruncRem(I64TruncRem(local_secs) + 86400, 86400)
        hours == TruncDiv(time_of_day, 3600)
        minutes == TruncDiv(TruncRem(time_of_day, 3600), 60)
        seconds == TruncRem(time_of_day, 60)
        ymd == days_to_ymd(days)
    IN  Display(ymd[1]) \o <<"-">> \o Display(ymd[2]) \o <<"-">> \o Display(ymd[3])
        \o Sp \o Display(hours) \o <<":">> \o Display(minutes)
        \o <<":">> \o Display(seconds)

\* git2::Time as its seconds since the epoch and its offset in minutes
\* (within -720..840, so that the offset in seconds is less than a day)
format_git_time(secs, offset_mins) ==
    LET local_secs == I64Add(secs, offset_mins * 60)
        days == I64TruncDiv(local_secs)
        time_of_day == TruncRem(I64TruncRem(local_secs) + 86400, 86400)
        hours == TruncDiv(time_of_day, 3600)
        minutes == TruncDiv(TruncRem(time_of_day, 3600), 60)
        seconds == TruncRem(time_of_day, 60)
        ymd == days_to_ymd(days)
    IN  ZeroPad(ymd[1], 4) \o <<"-">> \o ZeroPad(ymd[2], 2) \o <<"-">> \o ZeroPad(ymd[3], 2)
        \o Sp \o ZeroPad(hours, 2) \o <<":">> \o ZeroPad(minutes, 2)
        \o <<":">> \o ZeroPad(seconds, 2)

----------------------------------------------------------------------------
(* The path exclusion filter.                                              *)

PackageLockJson == <<"p","a","c","k","a","g","e","-","l","o","c","k",".","j","s","o","n">>
YarnLock == <<"y","a","r","n",".","l","o","c","k">>
PnpmLockYaml == <<"p","n","p","m","-","l","o","c","k",".","y","a","m","l">>
CargoLock == <<"C","a","r","g","o",".","l","o","c","k">>
NodeModulesSlash == <<"n","o","d","e","_","m","o","d","u","l","e","s","/">>

EXCLUDED_FILES == {PackageLockJson, YarnLock, PnpmLockYaml, CargoLock}

EXCLUDED_PATTERNS == {NodeModulesSlash}

\* a plausible slip: the pattern loop is left out
should_exclude_path_no_patterns(path) ==
    RSplitFirst(path, "/") \in EXCLUDED_FILES

should_exclude_path(path) ==
    \/ RSplitFirst(path, "/") \in EXCLUDED_FILES
    \/ \E pattern \in EXCLUDED_PATTERNS : StrContains(path, pattern)

----------------------------------------------------------------------------
(* Objects of the repository.                                              *)

PathA == <<"a">>
PathVendor == NodeModulesSlash \o <<"a">>

\* the paths a tree, the index or the working tree may hold, in libgit2's
\* delta order (byte order of the path)
PathOrder == <<CargoLock, PathA, PathVendor>>

RepoPaths == {PathOrder[i] : i \in 1..Len(PathOrder)}

\* blob 0 is "no file"; blobs 1 and 2 are text files sharing their first
\* line, blob 3 is a text file whose second line is not valid UTF-8
Blobs == {1, 2, 3}

BinaryBlobs == {4}

NonUtf8Lines == {3}

BlobLines(b) == IF b = 1 THEN <<1>> ELSE <<1, b>>

Trees == [RepoPaths -> {0} \cup Blobs \cup BinaryBlobs]

EmptyTree == [p \in RepoPaths |-> 0]

OidLen == 40

HexDigits == <<"1", "2", "3", "4", "5", "6", "7", "8", "9">>

\* Oid::to_string of commit i: 40 lowercase hex digits
OidStr(i) == [k \in 1..OidLen |-> IF k = 1 THEN HexDigits[i] ELSE "0"]

HeadStr == <<"H","E","A","D">>

\* git's well-known empty tree, an object every object database answers for
EmptyTreeId == <<"4","b","8","2","5","d","c","6","4","2","c","b","6","e","b","9","a","0","6","0","e","5","4","b","f","8","d","6","9","2","8","8","f","b","e","e","4","9","0","4">>

CommitIds == 1..Len(commits)

\* Result<T, VcsError>
Ok(v) == [kind |-> "Ok", val |-> v, msg |-> ""]

Err(k, m) == [kind |-> k, val |-> <<>>, msg |-> m]

IsOk(r) == r.kind = "Ok"

\* the id of commit object c, which is derived from its content: an equal
\* object already stored keeps its id, a new one gets the next id
OidOf(c) ==
    IF \E i \in CommitIds : commits[i] = c
    THEN CHOOSE i \in CommitIds : commits[i] = c
    ELSE Len(commits) + 1

OdbWrite(c) ==
    IF \E i \in CommitIds : commits[i] = c THEN commits ELSE Append(commits, c)

\* Commit::tree of the commit HEAD peels to, None (the empty side) when unborn
HeadTree == IF head = 0 THEN EmptyTree ELSE commits[head].tree

----------------------------------------------------------------------------
(* The commit walk of libgit2 (Revwalk).                                   *)

\* libgit2's default walk order (Sort::NONE) is git's: the pending commits
\* are kept newest commit time first, and a commit goes in behind the
\* pending commits that are as new as it is
RECURSIVE insert_by_date(_, _)
insert_by_date(queue, c) ==
    IF queue = <<>> THEN <<c>>
    ELSE IF commits[Head(queue)].time < commits[c].time THEN <<c>> \o queue
    ELSE <<Head(queue)>> \o insert_by_date(Tail(queue), c)

\* the parents of a popped commit that were not seen before join the queue
RECURSIVE EnqueueParents(_, _, _)
EnqueueParents(queue, seen, ps) ==
    IF ps = <<>> THEN [queue |-> queue, seen |-> seen]
    ELSE IF Head(ps) \in seen THEN EnqueueParents(queue, seen, Tail(ps))
    ELSE EnqueueParents(insert_by_date(queue, Head(ps)),
                        seen \cup {Head(ps)}, Tail(ps))

RECURSIVE WalkLoop(_, _, _, _)
WalkLoop(queue, seen, hidden, out) ==
    IF queue = <<>> THEN out
    ELSE LET c == Head(queue)
             n == EnqueueParents(Tail(queue), seen, commits[c].parents)
         IN  WalkLoop(n.queue, n.seen, hidden,
                      IF c \in hidden THEN out ELSE Append(out, c))

----------------------------------------------------------------------------
(* Revision parsing: Repository::revparse_single and Object::peel_to_commit *)
(* for the reference forms HEAD, a full object id, either followed by any  *)
(* number of '^' (first parent), and ":/<pattern>" (the youngest commit    *)
(* reachable from a reference whose message matches).  The text is read    *)
(* left to right, and the pattern of ":/" runs to the end of the text.     *)
(* Any other text names nothing.                                           *)

NoObject == [kind |-> "none", id |-> 0]

\* the regular expression pat found in a commit message, for patterns of
\* plain characters and '^': a leading '^' anchors the match at the start; a
\* '^' further on is at best the character itself (in no dialect does it
\* match in a message that has no '^' in it)
RegexMatches(message, pat) ==
    IF \E i \in 2..Len(pat) : pat[i] = "^"
    THEN \E i \in 1..Len(message) : message[i] = "^" /\ StrContains(message, pat)
    ELSE IF pat[1] = "^" THEN SubSeq(message, 1, Len(pat) - 1) = Tail(pat)
    ELSE StrContains(message, pat)

\* the first commit of seq whose message matches pat, 0 when none does
RECURSIVE FirstMatch(_, _)
FirstMatch(seq, pat) ==
    IF seq = <<>> THEN 0
    ELSE IF RegexMatches(commits[Head(seq)].message, pat) THEN Head(seq)
    ELSE FirstMatch(Tail(seq), pat)

\* name^^..: the first parent, as often as there are '^'
RECURSIVE ParentSuffix(_, _)
ParentSuffix(obj, suffix) ==
    IF suffix = <<>> THEN obj
    ELSE IF obj.kind = "commit" /\ commits[obj.id].parents # <<>>
    THEN ParentSuffix([kind |-> "commit", id |-> commits[obj.id].parents[1]],
                      Tail(suffix))
    ELSE NoObject

\* the commits the walk from start yields, newest commit time first
TimeWalk(start) == IF start = 0 THEN <<>> ELSE WalkLoop(<<start>>, {start}, {}, <<>>)

revparse_single(spec) ==
    IF spec = <<>> THEN NoObject
    ELSE IF StartsWith(spec, <<":", "/">>)
    THEN LET pat == SubSeq(spec, 3, Len(spec))
             c == IF pat = <<>> THEN 0 ELSE FirstMatch(TimeWalk(head), pat)
         IN  IF c = 0 THEN NoObject ELSE [kind |-> "commit", id |-> c]
    ELSE LET name == TrimEndMatches(spec, "^")
             suffix == SubSeq(spec, Len(name) + 1, Len(spec))
             base == IF name = HeadStr
                     THEN IF head = 0 THEN NoObject ELSE [kind |-> "commit", id |-> head]
                     ELSE IF name = EmptyTreeId THEN [kind |-> "tree", id |-> 0]
                     ELSE IF \E i \in CommitIds : name = OidStr(i)
                     THEN [kind |-> "commit", id |-> CHOOSE i \in CommitIds : name = OidStr(i)]
                     ELSE NoObject
         IN  ParentSuffix(base, suffix)

\* revparse_single(..).map_err(InvalidRef)?.peel_to_commit().map_err(InvalidRef)?
\* : the commit id, or 0 for InvalidRef (a tree does not peel to a commit)
ResolveCommit(spec) ==
    LET obj == revparse_single(spec)
    IN  IF obj.kind = "commit" THEN obj.id ELSE 0

----------------------------------------------------------------------------
(* The reference validator.                                                *)

\* a plausible slip: the rejection is reported with the catch-all kind
validate_ref_format_other_kind(reference) ==
    IF StartsWith(Trim(reference), <<"-">>)
    THEN Err("Other", "references cannot start with '-'")
    ELSE Ok(<<>>)

validate_ref_format(reference) ==
    IF StartsWith(Trim(reference), <<"-">>)
    THEN Err("InvalidRef", "references cannot start with '-'")
    ELSE Ok(<<>>)

----------------------------------------------------------------------------
(* Diffs: libgit2's deltas and the lines Diff::print(DiffFormat::Patch)     *)
(* hands to the callback, and the callback that renders them.              *)

\* the deltas of a diff from snapshot old to snapshot new over the paths ps,
\* in path order; no rename detection is asked for, so a delta's old-side
\* and new-side path are the same path
RECURSIVE DeltasFrom(_, _, _, _)
DeltasFrom(old, new, ps, i) ==
    IF i > Len(PathOrder) THEN <<>>
    ELSE LET p == PathOrder[i]
         IN  (IF p \in ps /\ old[p] # new[p]
              THEN <<[old_path |-> p, new_path |-> p, old |-> old[p], new |-> new[p]]>>
              ELSE <<>>)
             \o DeltasFrom(old, new, ps, i + 1)

\* Repository::diff_tree_to_tree, and diff_tree_to_index with the index as
\* the new side
diff_tree_to_tree(old, new) == DeltasFrom(old, new, RepoPaths, 1)

\* Repository::diff_index_to_workdir: untracked files are not asked for
diff_index_to_workdir(idx, wd) ==
    DeltasFrom(idx, wd, {p \in RepoPaths : idx[p] # 0}, 1)

Line(d, o, t) ==
    [old_path |-> d.old_path, new_path |-> d.new_path, origin |-> o, text |-> t]

RECURSIVE CommonPrefix(_, _)
CommonPrefix(a, b) ==
    IF a # <<>> /\ b # <<>> /\ Head(a) = Head(b)
    THEN 1 + CommonPrefix(Tail(a), Tail(b)) ELSE 0

\* the lines of one delta: the file header, then the binary marker, or the
\* hunk header and the context, removed and added lines
DeltaLines(d) ==
    IF d.old \in BinaryBlobs \/ d.new \in BinaryBlobs
    THEN <<Line(d, "F", 0), Line(d, "B", 0)>>
    ELSE LET ol == IF d.old = 0 THEN <<>> ELSE BlobLines(d.old)
             nl == IF d.new = 0 THEN <<>> ELSE BlobLines(d.new)
             k  == CommonPrefix(ol, nl)
         IN  <<Line(d, "F", 0), Line(d, "H", 0)>>
             \o [i \in 1..k |-> Line(d, " ", ol[i])]
             \o [i \in 1..(Len(ol) - k) |-> Line(d, "-", ol[k + i])]
             \o [i \in 1..(Len(nl) - k) |-> Line(d, "+", nl[k + i])]

RECURSIVE PatchLines(_)
PatchLines(deltas) ==
    IF deltas = <<>> THEN <<>>
    ELSE DeltaLines(Head(deltas)) \o PatchLines(Tail(deltas))

\* std::str::from_utf8(line.content()).is_ok()
ContentIsUtf8(l) == ~(l.origin \in {"+", "-", " "} /\ l.text \in NonUtf8Lines)

\* a plausible slip: only the new side's path is tested, with the file
\* names but not the patterns
print_callback_new_side_only(output, l) ==
    IF RSplitFirst(l.new_path, "/") \in EXCLUDED_FILES THEN output
    ELSE Append(output, [path |-> l.new_path, origin |-> l.origin, text |-> l.text,
                         prefix |-> IF l.origin \in {"+", "-", " "} THEN l.origin ELSE "",
                         body |-> ContentIsUtf8(l)])

\* the closure given to diff.print: what one line adds to the output text.
\* An element of the output is one line's contribution: its prefix
\* character ("" for none) and whether its content was pushed.
print_callback(output, l) ==
    IF should_exclude_path(l.new_path) THEN output
    ELSE IF should_exclude_path(l.old_path) THEN output
    ELSE LET prefix == IF l.origin \in {"+", "-", " "} THEN l.origin ELSE ""
             body   == ContentIsUtf8(l)
         IN  IF prefix = "" /\ ~body THEN output
             ELSE Append(output, [path |-> l.new_path, origin |-> l.origin,
                                  text |-> l.text, prefix |-> prefix, body |-> body])

RECURSIVE PrintFold(_, _)
PrintFold(output, lines) ==
    IF lines = <<>> THEN output
    ELSE PrintFold(print_callback(output, Head(lines)), Tail(lines))

\* diff.print(DiffFormat::Patch, callback) into an empty String
RenderPatch(deltas) == PrintFold(<<>>, PatchLines(deltas))

\* diff.deltas().filter_map(|d| d.new_file().path()..to_str()).collect()
RECURSIVE DeltaPaths(_)
DeltaPaths(deltas) ==
    IF deltas = <<>> THEN <<>>
    ELSE <<Head(deltas).new_path>> \o DeltaPaths(Tail(deltas))

\* the tree of a commit's first parent, None (the empty side) for a root
ParentTree_last_parent(c) ==
    IF commits[c].parents = <<>> THEN EmptyTree
    ELSE commits[commits[c].parents[Len(commits[c].parents)]].tree

ParentTree(c) ==
    IF commits[c].parents # <<>> THEN commits[commits[c].parents[1]].tree
    ELSE EmptyTree

generate_commit_diff(c) ==
    Ok(RenderPatch(diff_tree_to_tree(ParentTree(c), commits[c].tree)))

----------------------------------------------------------------------------
(* The read-only contract: each operation as a function of the repository  *)
(* state and its arguments.                                                *)

RECURSIVE TrimStartMatches(_, _)
TrimStartMatches(s, c) ==
    IF s # <<>> /\ Head(s) = c THEN TrimStartMatches(Tail(s), c) ELSE s

\* Commit::message: the stored message without its leading newlines
Commit_message(c) == TrimStartMatches(commits[c].message, NL)

get_commit(reference0) ==
    LET reference == Trim(reference0)
        v == validate_ref_format(reference)
        c == ResolveCommit(reference)
    IN  IF ~IsOk(v) THEN v
        ELSE IF c = 0 THEN Err("InvalidRef", "reference")
        ELSE Ok([commit_id |-> OidStr(c),
                 message |-> TrimEndMatches(Commit_message(c), NL),
                 diff |-> generate_commit_diff(c).val])

\* the staged diff taken against the working tree instead of the index
get_working_tree_diff_head_to_workdir(staged) ==
    IF staged
    THEN Ok(RenderPatch(diff_tree_to_tree(HeadTree, workdir)))
    ELSE Ok(RenderPatch(diff_index_to_workdir(index, workdir)))

\* the body of get_working_tree_diff on the tree HEAD peels to, the index
\* of the handle and the working tree
working_tree_diff(head_tree, idx, wd, staged) ==
    IF staged
    THEN Ok(RenderPatch(diff_tree_to_tree(head_tree, idx)))
    ELSE Ok(RenderPatch(diff_index_to_workdir(idx, wd)))

get_working_tree_diff(staged) == working_tree_diff(HeadTree, index, workdir, staged)

\* the ancestors of commit c, c included
RECURSIVE Ancestors(_)
Ancestors(c) ==
    {c} \cup UNION {Ancestors(commits[c].parents[i]) :
                        i \in 1..Len(commits[c].parents)}

\* Repository::merge_base: a common ancestor that is no ancestor of another
\* common ancestor, 0 (an error) when the two histories share none
merge_base_oldest(c1, c2) ==
    LET common == Ancestors(c1) \cap Ancestors(c2)
    IN  IF common = {} THEN 0
        ELSE CHOOSE m \in common : \A n \in common : m <= n

merge_base(c1, c2) ==
    LET common == Ancestors(c1) \cap Ancestors(c2)
        best   == {m \in common :
                      \A n \in common : n = m \/ m \notin Ancestors(n)}
    IN  IF common = {} THEN 0
        ELSE CHOOSE m \in best : \A n \in best : n <= m

get_range_diff_from_tree(from, to, three_dot) ==
    LET v1 == validate_ref_format(from)
        v2 == validate_ref_format(to)
        fc == ResolveCommit(from)
        tc == ResolveCommit(to)
    IN  IF ~IsOk(v1) THEN v1
        ELSE IF ~IsOk(v2) THEN v2
        ELSE IF fc = 0 THEN Err("InvalidRef", "from")
        ELSE IF tc = 0 THEN Err("InvalidRef", "to")
        ELSE IF three_dot /\ merge_base(fc, tc) = 0
        THEN Err("Other", "failed to find merge base")
        ELSE Ok(RenderPatch(diff_tree_to_tree(commits[fc].tree, commits[tc].tree)))

get_range_diff(from, to, three_dot) ==
    LET v1 == validate_ref_format(from)
        v2 == validate_ref_format(to)
        fc == ResolveCommit(from)
        tc == ResolveCommit(to)
    IN  IF ~IsOk(v1) THEN v1
        ELSE IF ~IsOk(v2) THEN v2
        ELSE IF fc = 0 THEN Err("InvalidRef", "from")
        ELSE IF tc = 0 THEN Err("InvalidRef", "to")
        ELSE IF three_dot /\ merge_base(fc, tc) = 0
        THEN Err("Other", "failed to find merge base")
        ELSE LET base_tree == IF three_dot THEN commits[merge_base(fc, tc)].tree
                              ELSE commits[fc].tree
             IN  Ok(RenderPatch(diff_tree_to_tree(base_tree, commits[tc].tree)))

\* the single-commit branch of get_changed_files
ChangedFilesOfCommit(reference) ==
    LET v == validate_ref_format(reference)
        c == ResolveCommit(reference)
    IN  IF ~IsOk(v) THEN v
        ELSE IF c = 0 THEN Err("InvalidRef", "reference")
        ELSE Ok(DeltaPaths(diff_tree_to_tree(ParentTree(c), commits[c].tree)))

\* the range branch of get_changed_files
ChangedFilesOfRange(from, to) ==
    LET v1 == validate_ref_format(from)
        v2 == validate_ref_format(to)
        fc == ResolveCommit(from)
        tc == ResolveCommit(to)
    IN  IF ~IsOk(v1) THEN v1
        ELSE IF ~IsOk(v2) THEN v2
        ELSE IF fc = 0 THEN Err("InvalidRef", "from")
        ELSE IF tc = 0 THEN Err("InvalidRef", "to")
        ELSE Ok(DeltaPaths(diff_tree_to_tree(commits[fc].tree, commits[tc].tree)))

Dot2 == <<".", ".">>

Dot3 == <<".", ".", ".">>

get_changed_files(reference0) ==
    LET reference == Trim(reference0)
        parts == IF StrContains(reference, Dot3) THEN StrSplit(reference, Dot3)
                 ELSE StrSplit(reference, Dot2)
    IN  IF StrContains(reference, Dot2) /\ Len(parts) = 2
        THEN ChangedFilesOfRange(parts[1], parts[2])
        ELSE ChangedFilesOfCommit(reference)

\* the lines of a blob decoded by String::from_utf8_lossy: an invalid line
\* becomes the replacement text 0
BlobText(b) ==
    [i \in 1..Len(BlobLines(b)) |->
        IF BlobLines(b)[i] \in NonUtf8Lines THEN 0 ELSE BlobLines(b)[i]]

\* Tree::get_path: the entry at the path is a blob, a tree (the path is a
\* directory of some file of the tree) or missing
tree_get_path(tree, path) ==
    IF path \in RepoPaths /\ tree[path] # 0 THEN "blob"
    ELSE IF path # <<>> /\ \E p \in RepoPaths : tree[p] # 0 /\ StartsWith(p, path \o <<"/">>)
    THEN "tree"
    ELSE "none"

\* the failure of find_blob reported as another kind of error
get_file_content_at_ref_blob_error_other(reference0, path) ==
    LET reference == Trim(reference0)
        v == validate_ref_format(reference)
        c == ResolveCommit(reference)
    IN  IF ~IsOk(v) THEN v
        ELSE IF c = 0 THEN Err("InvalidRef", "reference")
        ELSE IF tree_get_path(commits[c].tree, path) = "none"
        THEN Err("FileNotFound", "path")
        ELSE IF tree_get_path(commits[c].tree, path) = "tree"
        THEN Err("Other", "path")
        ELSE Ok(BlobText(commits[c].tree[path]))

get_file_content_at_ref(reference0, path) ==
    LET reference == Trim(reference0)
        v == validate_ref_format(reference)
        c == ResolveCommit(reference)
    IN  IF ~IsOk(v) THEN v
        ELSE IF c = 0 THEN Err("InvalidRef", "reference")
        ELSE IF tree_get_path(commits[c].tree, path) = "none"
        THEN Err("FileNotFound", "path")
        ELSE IF tree_get_path(commits[c].tree, path) = "tree"
        THEN Err("FileNotFound", "path")
        ELSE Ok(BlobText(commits[c].tree[path]))

resolve_ref(reference0) ==
    LET reference == Trim(reference0)
        v == validate_ref_format(reference)
        c == ResolveCommit(reference)
    IN  IF ~IsOk(v) THEN v
        ELSE IF c = 0 THEN Err("InvalidRef", "reference")
        ELSE Ok(OidStr(c))

get_merge_base(ref10, ref20) ==
    LET ref1 == Trim(ref10)
        ref2 == Trim(ref20)
        v1 == validate_ref_format(ref1)
        v2 == validate_ref_format(ref2)
        c1 == ResolveCommit(ref1)
        c2 == ResolveCommit(ref2)
    IN  IF ~IsOk(v1) THEN v1
        ELSE IF ~IsOk(v2) THEN v2
        ELSE IF c1 = 0 THEN Err("InvalidRef", "ref1")
        ELSE IF c2 = 0 THEN Err("InvalidRef", "ref2")
        ELSE IF merge_base(c1, c2) = 0 THEN Err("Other", "failed to find merge base")
        ELSE Ok(OidStr(merge_base(c1, c2)))

get_range_changed_files(from0, to0) ==
    ChangedFilesOfRange(Trim(from0), Trim(to0))

get_parent_ref_or_empty(reference0) ==
    LET reference == Trim(reference0)
        v == validate_ref_format(reference)
        c == ResolveCommit(reference)
    IN  IF ~IsOk(v) THEN v
        ELSE IF c = 0 THEN Err("InvalidRef", "reference")
        ELSE IF Len(commits[c].parents) > 0 THEN Ok(reference \o <<"^">>)
        ELSE Ok(EmptyTreeId)

----------------------------------------------------------------------------
(* Commit-range enumeration: the revwalk and get_commits_in_range.         *)

\* a plausible slip: only the hidden commit itself is left out, not the
\* commits reachable from it
Hidden_commit_only(from_oid) == {from_oid}

\* revwalk.hide(from_oid): the commit and all its ancestors are hidden
Hidden(from_oid) == Ancestors(from_oid)

\* revwalk.push(to_oid); revwalk.hide(from_oid); the ids the iterator yields
Revwalk(to_oid, from_oid) ==
    WalkLoop(<<to_oid>>, {to_oid}, Hidden(from_oid), <<>>)

Reverse(s) == [i \in 1..Len(s) |-> s[Len(s) + 1 - i]]

\* whether only spaces and tabs stand between offset i and the end of its line
RECURSIVE BlankToLineEnd(_, _)
BlankToLineEnd(msg, i) ==
    IF i > Len(msg) THEN TRUE
    ELSE IF msg[i] = NL THEN TRUE
    ELSE IF msg[i] \in Whitespace THEN BlankToLineEnd(msg, i + 1)
    ELSE FALSE

\* the scan of the message from offset i: out is the summary so far, run the
\* whitespace passed since the last character copied
RECURSIVE SummaryFrom(_, _, _, _)
SummaryFrom(msg, i, out, run) ==
    IF i > Len(msg) THEN out
    ELSE IF msg[i] = NL /\ BlankToLineEnd(msg, i + 1) THEN out
    ELSE IF msg[i] \in Whitespace THEN SummaryFrom(msg, i + 1, out, run \o <<msg[i]>>)
    ELSE SummaryFrom(msg, i + 1,
                     out \o (IF StrContains(run, <<NL>>) THEN Sp ELSE run) \o <<msg[i]>>,
                     <<>>)

\* Commit::summary: the first paragraph of the message, a run of whitespace
\* that holds a newline squashed to one space, trailing whitespace dropped
Commit_summary(c) == SummaryFrom(Commit_message(c), 1, <<>>, <<>>)

\* Option::None
None == [some |-> FALSE]

\* the loop without its test of the changed files
RECURSIVE CollectCommits_unfiltered(_)
CollectCommits_unfiltered(oids) ==
    IF oids = <<>> THEN <<>>
    ELSE LET commit_id == OidStr(Head(oids))
         IN  <<[commit_id |-> commit_id,
                short_id |-> SubSeq(commit_id, 1, 7),
                change_id |-> None,
                summary |-> Commit_summary(Head(oids))]>>
             \o CollectCommits_unfiltered(Tail(oids))

\* the loop body of get_commits_in_range over the walked ids: a commit is
\* pushed when get_changed_files of its id succeeds with a non-empty list
RECURSIVE CollectCommits(_)
CollectCommits(oids) ==
    IF oids = <<>> THEN <<>>
    ELSE LET commit_id == OidStr(Head(oids))
             files == get_changed_files(commit_id)
         IN  (IF IsOk(files) /\ files.val # <<>>
              THEN <<[commit_id |-> commit_id,
                      short_id |-> SubSeq(commit_id, 1, IF 7 < Len(commit_id) THEN 7 ELSE Len(commit_id)),
                      change_id |-> None,
                      summary |-> Commit_summary(Head(oids))]>>
              ELSE <<>>)
             \o CollectCommits(Tail(oids))

get_commits_in_range(from0, to0) ==
    LET from == Trim(from0)
        to == Trim(to0)
        v1 == validate_ref_format(from)
        v2 == validate_ref_format(to)
        from_oid == ResolveCommit(from)
        to_oid == ResolveCommit(to)
    IN  IF ~IsOk(v1) THEN v1
        ELSE IF ~IsOk(v2) THEN v2
        ELSE IF from_oid = 0 THEN Err("InvalidRef", "from")
        ELSE IF to_oid = 0 THEN Err("InvalidRef", "to")
        ELSE Ok(Reverse(CollectCommits(Revwalk(to_oid, from_oid))))

\* the branch HEAD is on; the repositories modelled keep HEAD on a branch
BranchName == <<"m", "a", "i", "n">>

\* GitBackend::get_current_branch: Repository::head fails while the branch
\* has no commit
get_current_branch ==
    IF head = 0 THEN Err("Other", "failed to get HEAD")
    ELSE Ok(BranchName)

\* the lines of get_commit_log_for_fzf for the walked ids: short id, summary
\* and age, between fixed colour codes
LogLines(oids, now) ==
    [i \in 1..Len(oids) |->
        [short_id |-> SubSeq(OidStr(oids[i]), 1, 7),
         summary |-> Commit_summary(oids[i]),
         relative_time |-> format_relative_time(now - commits[oids[i]].time)]]

\* GitBackend::get_commit_log_for_fzf, the clock reading now
get_commit_log_for_fzf(now) ==
    IF head = 0 THEN Err("Other", "failed to push head")
    ELSE Ok(LogLines(TimeWalk(head), now))

\* Repository::statuses with untracked files: the paths that differ between
\* HEAD and the index or between the index and the working tree
StatusPaths ==
    {p \in RepoPaths : HeadTree[p] # index[p] \/ index[p] # workdir[p]}

\* the orders a HashSet of the paths can be iterated in
Orders(S) == {f \in [1..Cardinality(S) -> S] : \A i, j \in 1..Cardinality(S) : i # j => f[i] # f[j]}

\* GitBackend::get_working_tree_changed_files: the status paths collected
\* into a HashSet and from it into a Vec, in the order of the set's hasher
get_working_tree_changed_files == {Ok(order) : order \in Orders(StatusPaths)}

----------------------------------------------------------------------------
(* The side-effecting operations of the backend.                           *)

\* index.add_path for each path in turn, on the handle's in-memory index:
\* a path with no file in the working tree fails, and the paths added
\* before it stay added in memory
RECURSIVE AddPaths(_, _)
AddPaths(idx, paths) ==
    IF paths = <<>> THEN [ok |-> TRUE, index |-> idx]
    ELSE IF workdir[Head(paths)] = 0 THEN [ok |-> FALSE, index |-> idx]
    ELSE AddPaths([idx EXCEPT ![Head(paths)] = workdir[Head(paths)]], Tail(paths))

\* a plausible slip: the commit is written without a parent
NewCommit_no_parent(message, t) ==
    [parents |-> <<>>, tree |-> index, time |-> t, message |-> message]

\* the tree taken from the working tree, as git commit -a does
NewCommit_from_workdir(message, t) ==
    [parents |-> IF head = 0 THEN <<>> ELSE <<head>>,
     tree |-> workdir, time |-> t, message |-> message]

\* the commit object commit(message) writes at clock time t
NewCommit(message, t) ==
    [parents |-> IF head = 0 THEN <<>> ELSE <<head>>,
     tree |-> index, time |-> t, message |-> message]

----------------------------------------------------------------------------
(* Actions.  The backend is single-threaded and every operation completes  *)
(* before it returns: a call is one step, which records the operation, its *)
(* arguments, its result and the head and index it found in `last`; Return *)
(* clears the record, and the next call or step of the environment (git    *)
(* run by the user, an edit of a file) starts from there.                  *)

Pre ==
    [head |-> head, index |-> index, index_file |-> index_file,
     ncommits |-> Len(commits), odb_trees |-> odb_trees, workdir |-> workdir,
     op |-> last.op, args |-> last.args, ret |-> last.ret]

NoPre ==
    [head |-> 0, index |-> EmptyTree, index_file |-> EmptyTree, ncommits |-> 0,
     odb_trees |-> {}, workdir |-> EmptyTree,
     op |-> "none", args |-> <<>>, ret |-> Ok(<<>>)]

NoCall == [op |-> "none", args |-> <<>>, ret |-> Ok(<<>>), pre |-> NoPre]

Idle == last.op = "none"

Called(op, args, ret) ==
    last' = [op |-> op, args |-> args, ret |-> ret, pre |-> Pre]

\* the caller is done with the result of the last call
Return ==
    /\ ~Idle
    /\ last' = NoCall
    /\ UNCHANGED <<commits, odb_trees, head, index, index_file, workdir, config>>

\* a plausible slip: every call reads the index anew from its file and drops
\* what the handle holds in memory
Query_rereading_index(op, args, ret) ==
    /\ Called(op, args, ret)
    /\ index' = index_file
    /\ UNCHANGED <<commits, odb_trees, head, index_file, workdir, config>>

\* a read-only operation: nothing but `last` changes
Query(op, args, ret) ==
    /\ Called(op, args, ret)
    /\ UNCHANGED <<commits, odb_trees, head, index, index_file, workdir, config>>

\* the user edits, creates or deletes (blob 0) a file of the working tree
WriteFile(paths, blobs) ==
    /\ Idle
    /\ \E p \in paths, b \in blobs :
        /\ workdir[p] # b
        /\ workdir' = [workdir EXCEPT ![p] = b]
        /\ UNCHANGED <<commits, odb_trees, head, index, index_file, config, last>>

\* git commit-tree: git writes a commit object (of any parents, a merge
\* included); no reference moves
ExtCommit(max, parentSeqs, trees, times, messages) ==
    /\ Idle
    /\ Len(commits) < max
    /\ \E ps \in parentSeqs, t \in trees, tm \in times, m \in messages :
        LET c == [parents |-> ps, tree |-> t, time |-> tm, message |-> m]
        IN  /\ \A i \in 1..Len(ps) : ps[i] \in CommitIds
            /\ \A i, j \in 1..Len(ps) : i # j => ps[i] # ps[j]
            /\ \A i \in CommitIds : commits[i] # c
            /\ commits' = Append(commits, c)
            /\ odb_trees' = odb_trees \cup {t}
            /\ UNCHANGED <<head, index, index_file, workdir, config, last>>

\* git reset --hard <commit>: the current branch, and HEAD with it, moves to
\* the commit, and the index file and the working tree become the commit's;
\* the handle re-reads the changed index file
ExtReset ==
    /\ Idle
    /\ \E c \in CommitIds :
        /\ head # c
        /\ head' = c
        /\ index' = commits[c].tree
        /\ index_file' = commits[c].tree
        /\ workdir' = commits[c].tree
        /\ UNCHANGED <<commits, odb_trees, config, last>>

\* GitBackend::stage_files
StageFiles(pathSeqs) ==
    /\ Idle
    /\ \E paths \in pathSeqs :
        LET r == AddPaths(index, paths)
        IN  /\ index' = r.index
            /\ index_file' = IF r.ok THEN r.index ELSE index_file
            /\ Called("stage_files", <<paths>>,
                      IF r.ok THEN Ok(<<>>) ELSE Err("Other", "failed to stage"))
            /\ UNCHANGED <<commits, odb_trees, head, workdir, config>>

\* git config [--unset] user.name / user.email run by the user
ExtConfig ==
    /\ Idle
    /\ \E k \in {"name", "email"} : config' = [config EXCEPT ![k] = ~config[k]]
    /\ UNCHANGED <<commits, odb_trees, head, index, index_file, workdir, last>>

\* a plausible slip: the tree is written from the index before the identity
\* is looked up
Commit_tree_before_config(max, messages, times) ==
    /\ Idle
    /\ \E message \in messages, t \in times :
        IF ~config.name \/ ~config.email
        THEN /\ Called("commit", <<message>>,
                       Err("Other", IF ~config.name
                                    THEN "git user.name not configured. Run: git config user.name \"Your Name\""
                                    ELSE "git user.email not configured. Run: git config user.email \"you@example.com\""))
             /\ odb_trees' = odb_trees \cup {index}
             /\ UNCHANGED <<commits, head, index, index_file, workdir, config>>
        ELSE LET c == NewCommit(message, t)
             IN  /\ OidOf(c) <= max
                 /\ odb_trees' = odb_trees \cup {index}
                 /\ commits' = OdbWrite(c)
                 /\ head' = OidOf(c)
                 /\ Called("commit", <<message>>, Ok(OidStr(OidOf(c))))
                 /\ UNCHANGED <<index, index_file, workdir, config>>

\* GitBackend::commit, the clock reading t at Signature::now
Commit(max, messages, times) ==
    /\ Idle
    /\ \E message \in messages, t \in times :
        IF ~config.name
        THEN /\ Called("commit", <<message>>, Err("Other", "git user.name not configured. Run: git config user.name \"Your Name\""))
             /\ UNCHANGED <<commits, odb_trees, head, index, index_file, workdir, config>>
        ELSE IF ~config.email
        THEN /\ Called("commit", <<message>>, Err("Other", "git user.email not configured. Run: git config user.email \"you@example.com\""))
             /\ UNCHANGED <<commits, odb_trees, head, index, index_file, workdir, config>>
        ELSE LET c == NewCommit(message, t)
             IN  /\ OidOf(c) <= max
                 /\ odb_trees' = odb_trees \cup {index}
                 /\ commits' = OdbWrite(c)
                 /\ head' = OidOf(c)
                 /\ Called("commit", <<message>>, Ok(OidStr(OidOf(c))))
                 /\ UNCHANGED <<index, index_file, workdir, config>>

GetCommit(refs) ==
    /\ Idle
    /\ \E r \in refs : Query("get_commit", <<r>>, get_commit(r))

GetWorkingTreeDiff ==
    /\ Idle
    /\ \E staged \in BOOLEAN :
        Query("get_working_tree_diff", <<staged>>, get_working_tree_diff(staged))

GetRangeDiff(froms, tos) ==
    /\ Idle
    /\ \E f \in froms, t \in tos, three_dot \in BOOLEAN :
        Query("get_range_diff", <<f, t, three_dot>>, get_range_diff(f, t, three_dot))

GetChangedFiles(refs) ==
    /\ Idle
    /\ \E r \in refs : Query("get_changed_files", <<r>>, get_changed_files(r))

GetFileContentAtRef(refs, paths) ==
    /\ Idle
    /\ \E r \in refs, p \in paths :
        Query("get_file_content_at_ref", <<r, p>>, get_file_content_at_ref(r, p))

ResolveRef(refs) ==
    /\ Idle
    /\ \E r \in refs : Query("resolve_ref", <<r>>, resolve_ref(r))

GetMergeBase(refs1, refs2) ==
    /\ Idle
    /\ \E a \in refs1, b \in refs2 :
        Query("get_merge_base", <<a, b>>, get_merge_base(a, b))

GetRangeChangedFiles(froms, tos) ==
    /\ Idle
    /\ \E f \in froms, t \in tos :
        Query("get_range_changed_files", <<f, t>>, get_range_changed_files(f, t))

GetParentRefOrEmpty(refs) ==
    /\ Idle
    /\ \E r \in refs :
        Query("get_parent_ref_or_empty", <<r>>, get_parent_ref_or_empty(r))

GetCommitsInRange(froms, tos) ==
    /\ Idle
    /\ \E f \in froms, t \in tos :
        Query("get_commits_in_range", <<f, t>>, get_commits_in_range(f, t))

GetCurrentBranch ==
    /\ Idle
    /\ Query("get_current_branch", <<>>, get_current_branch)

GetCommitLogForFzf(clock) ==
    /\ Idle
    /\ \E now \in clock : Query("get_commit_log_for_fzf", <<>>, get_commit_log_for_fzf(now))

GetWorkingTreeChangedFiles ==
    /\ Idle
    /\ \E r \in get_working_tree_changed_files :
        Query("get_working_tree_changed_files", <<>>, r)

\* the results the read-only operation op can return for args in this state
ReadOnlyResults(op, args, clock) ==
    IF op = "get_commit" THEN {get_commit(args[1])}
    ELSE IF op = "get_working_tree_diff" THEN {get_working_tree_diff(args[1])}
    ELSE IF op = "get_range_diff" THEN {get_range_diff(args[1], args[2], args[3])}
    ELSE IF op = "get_changed_files" THEN {get_changed_files(args[1])}
    ELSE IF op = "get_file_content_at_ref" THEN {get_file_content_at_ref(args[1], args[2])}
    ELSE IF op = "get_current_branch" THEN {get_current_branch}
    ELSE IF op = "get_commit_log_for_fzf" THEN {get_commit_log_for_fzf(now) : now \in clock}
    ELSE IF op = "resolve_ref" THEN {resolve_ref(args[1])}
    ELSE IF op = "get_working_tree_changed_files" THEN get_working_tree_changed_files
    ELSE IF op = "get_merge_base" THEN {get_merge_base(args[1], args[2])}
    ELSE IF op = "get_range_changed_files" THEN {get_range_changed_files(args[1], args[2])}
    ELSE IF op = "get_parent_ref_or_empty" THEN {get_parent_ref_or_empty(args[1])}
    ELSE IF op = "get_commits_in_range" THEN {get_commits_in_range(args[1], args[2])}
    ELSE {}

\* the caller makes the read-only call it holds the result of once more,
\* with the same arguments and nothing in between
CallAgain(clock) ==
    /\ last.pre.op = "none"
    /\ \E r \in ReadOnlyResults(last.op, last.args, clock) : Query(last.op, last.args, r)

\* the repository of a fresh `git init` with the identity configured
EmptyRepo ==
    /\ commits = <<>>
    /\ odb_trees = {}
    /\ head = 0
    /\ index = EmptyTree
    /\ index_file = EmptyTree
    /\ workdir = EmptyTree
    /\ config = [name |-> TRUE, email |-> TRUE]

----------------------------------------------------------------------------
(* SpecPath: should_exclude_path applied to paths built from a few pieces. *)

MaxPathPieces == 3

PathPieces ==
    {PackageLockJson, YarnLock, PnpmLockYaml, CargoLock,
     <<"n","o","d","e","_","m","o","d","u","l","e","s">>,
     <<"c","a","r","g","o",".","l","o","c","k">>,
     <<".","b","a","k">>, <<"s","r","c">>, <<"/">>}

PathInputs == {Concat(ps) : ps \in SeqsUpTo(PathPieces, MaxPathPieces)}

InitPath ==
    /\ EmptyRepo
    /\ \E p \in PathInputs :
          last = [op |-> "input", args |-> <<p>>, ret |-> Ok(<<>>), pre |-> NoPre]

ShouldExcludePath ==
    /\ last.op = "input"
    /\ last' = [op |-> "should_exclude_path", args |-> last.args,
                ret |-> Ok(<<should_exclude_path(last.args[1])>>), pre |-> NoPre]
    /\ UNCHANGED <<commits, odb_trees, head, index, index_file, workdir, config>>

NextPath == ShouldExcludePath

SpecPath == InitPath /\ [][NextPath]_vars

\* the claim's characterisation, by positions in the path
NameAfterLastSlash(p, f) ==
    \/ p = f
    \/ /\ Len(p) > Len(f)
       /\ SubSeq(p, Len(p) - Len(f) + 1, Len(p)) = f
       /\ p[Len(p) - Len(f)] = "/"

HasLockfileName(p) ==
    \E f \in {PackageLockJson, YarnLock, PnpmLockYaml, CargoLock} :
        NameAfterLastSlash(p, f)

UnderNodeModules(p) ==
    \E i \in 1..Len(p) :
        /\ i + 12 <= Len(p)
        /\ SubSeq(p, i, i + 12) = <<"n","o","d","e","_","m","o","d","u","l","e","s","/">>

\* C8: should_exclude_path(p) is true exactly when the part of p after its
\* last '/' is one of the four lockfile names or p contains 'node_modules/';
\* it is false for 'Cargo.lock.bak', 'src/cargo.lock' and 'node_modules'.
C8_ExcludeExactly ==
    last.op = "should_exclude_path" =>
        LET p == last.args[1]
        IN  /\ last.ret.val[1] <=> (HasLockfileName(p) \/ UnderNodeModules(p))
            /\ p = CargoLock \o <<".","b","a","k">> => ~last.ret.val[1]
            /\ p = <<"s","r","c","/","c","a","r","g","o",".","l","o","c","k">>
                   => ~last.ret.val[1]
            /\ p = <<"n","o","d","e","_","m","o","d","u","l","e","s">> => ~last.ret.val[1]

\* a path under node_modules/ with no lockfile name was tested and excluded
C8_Witness ==
    /\ last.op = "should_exclude_path"
    /\ last.args[1] = <<"n","o","d","e","_","m","o","d","u","l","e","s","/","s","r","c">>
    /\ last.ret.val[1]

----------------------------------------------------------------------------
(* SpecRefs: every reference-accepting operation called with reference     *)
(* strings built from a few pieces, on an unborn repository and on a       *)
(* history of one and of two commits.                                      *)

MaxRefPieces == 3

RefPieces == {<<" ">>, <<"-">>, Dot2, Dot3, HeadStr, <<"x">>}

RefInputs == {Concat(ps) : ps \in SeqsUpTo(RefPieces, MaxRefPieces)}

\* the other argument of a two-reference operation: resolvable, not
\* resolvable, rejected
OtherRefs == {HeadStr, <<"x">>, <<"-", "x">>}

TreeOf(b) == [EmptyTree EXCEPT ![PathA] = b]

InitRefs ==
    /\ index = EmptyTree
    /\ index_file = EmptyTree
    /\ workdir = EmptyTree
    /\ config = [name |-> TRUE, email |-> TRUE]
    /\ last = NoCall
    /\ \E n \in 0..2 :
          /\ commits = [i \in 1..n |->
                           [parents |-> IF i = 1 THEN <<>> ELSE <<i - 1>>,
                            tree |-> TreeOf(i), time |-> i, message |-> <<"m">>]]
          /\ odb_trees = {TreeOf(i) : i \in 1..n}
          /\ head = n

RefGetCommit == GetCommit(RefInputs)

RefGetRangeDiff ==
    \/ GetRangeDiff(RefInputs, OtherRefs)
    \/ GetRangeDiff(OtherRefs, RefInputs)

RefGetChangedFiles == GetChangedFiles(RefInputs)

RefGetFileContentAtRef == GetFileContentAtRef(RefInputs, {PathA, CargoLock})

RefResolveRef == ResolveRef(RefInputs)

RefGetMergeBase ==
    \/ GetMergeBase(RefInputs, OtherRefs)
    \/ GetMergeBase(OtherRefs, RefInputs)

RefGetRangeChangedFiles ==
    \/ GetRangeChangedFiles(RefInputs, OtherRefs)
    \/ GetRangeChangedFiles(OtherRefs, RefInputs)

RefGetParentRefOrEmpty == GetParentRefOrEmpty(RefInputs)

RefGetCommitsInRange ==
    \/ GetCommitsInRange(RefInputs, OtherRefs)
    \/ GetCommitsInRange(OtherRefs, RefInputs)

NextRefs ==
    \/ RefGetCommit
    \/ RefGetRangeDiff
    \/ RefGetChangedFiles
    \/ RefGetFileContentAtRef
    \/ RefResolveRef
    \/ RefGetMergeBase
    \/ RefGetRangeChangedFiles
    \/ RefGetParentRefOrEmpty
    \/ RefGetCommitsInRange
    \/ Return

SpecRefs == InitRefs /\ [][NextRefs]_vars

\* the claim's "trimmed form begins with '-'", by positions: a '-' with
\* nothing but whitespace before it
DashRef(r) ==
    \E i \in 1..Len(r) :
        /\ r[i] = "-"
        /\ \A j \in 1..(i - 1) : r[j] \in {" ", "\t", "\n"}

\* an endpoint of a range A..B or A...B begins with '-'
DashEndpoint(r) ==
    \E i \in 1..Len(r), n \in {2, 3} :
        /\ i + n - 1 <= Len(r)
        /\ \A k \in i..(i + n - 1) : r[k] = "."
        /\ \/ DashRef(SubSeq(r, 1, i - 1))
           \/ DashRef(SubSeq(r, i + n, Len(r)))

OneRefOps == {"get_commit", "get_file_content_at_ref", "resolve_ref",
              "get_parent_ref_or_empty"}

TwoRefOps == {"get_range_diff", "get_merge_base", "get_range_changed_files",
              "get_commits_in_range"}

DashCall ==
    \/ last.op \in OneRefOps /\ DashRef(last.args[1])
    \/ last.op \in TwoRefOps /\ (DashRef(last.args[1]) \/ DashRef(last.args[2]))
    \/ last.op = "get_changed_files"
          /\ (DashRef(last.args[1]) \/ DashEndpoint(last.args[1]))

\* C1: a reference-accepting operation given a reference whose trimmed form
\* begins with '-' (for get_changed_files also as an endpoint of a range)
\* returns InvalidRef: never Other, FileNotFound or a success.
C1_DashRefIsInvalidRef == DashCall => last.ret.kind = "InvalidRef"

\* get_changed_files was called on a range whose second endpoint begins
\* with '-' and whose first endpoint resolves, and answered InvalidRef
C1_Witness ==
    /\ last.op = "get_changed_files"
    /\ last.args[1] = HeadStr \o Dot2 \o <<"-">>
    /\ head # 0
    /\ last.ret.kind = "InvalidRef"

----------------------------------------------------------------------------
(* SpecWalk: get_commits_in_range over every commit graph of a few commits *)
(* (roots, chains, branches, merges of two parents, equal and skewed       *)
(* commit times, commits that change nothing), from and to any two of them.*)

WalkMaxCommits == 4

WalkMaxTime == 1

WalkTrees == {EmptyTree, TreeOf(1)}

WalkParents ==
    {<<>>} \cup {<<a>> : a \in 1..WalkMaxCommits}
           \cup {<<a, b>> : a, b \in 1..WalkMaxCommits}

InitWalk == EmptyRepo /\ last = NoCall

WalkExtCommit ==
    ExtCommit(WalkMaxCommits, WalkParents, WalkTrees, 0..WalkMaxTime, {<<"m">>})

WalkGetCommitsInRange ==
    GetCommitsInRange({OidStr(i) : i \in CommitIds}, {OidStr(i) : i \in CommitIds})

NextWalk ==
    \/ WalkExtCommit
    \/ WalkGetCommitsInRange
    \/ Return

SpecWalk == InitWalk /\ [][NextWalk]_vars

\* the commit a full id names
CommitOfId(id) == CHOOSE i \in CommitIds : OidStr(i) = id

\* the commit has a non-empty changed-file set against its first parent
\* (against the empty tree for a root)
ChangesFiles(c) == \E p \in RepoPaths : commits[c].tree[p] # ParentTree(c)[p]

\* a successful get_commits_in_range call on two commit ids
RangeCall == last.op = "get_commits_in_range" /\ IsOk(last.ret)

RangeFrom == CommitOfId(last.args[1])

RangeTo == CommitOfId(last.args[2])

\* the commits of the returned list, in the returned order
RangeListed == [i \in 1..Len(last.ret.val) |-> CommitOfId(last.ret.val[i].commit_id)]

\* C2: get_commits_in_range(from, to) lists exactly once each commit that is
\* reachable from to, is not reachable from from, and changes files against
\* its first parent, and lists nothing else; so the list is empty when to is
\* from or an ancestor of from.
C2_RangeMembership ==
    RangeCall =>
        /\ {RangeListed[i] : i \in 1..Len(RangeListed)}
              = {c \in Ancestors(RangeTo) \ Ancestors(RangeFrom) : ChangesFiles(c)}
        /\ \A i, j \in 1..Len(RangeListed) : i # j => RangeListed[i] # RangeListed[j]
        /\ RangeTo \in Ancestors(RangeFrom) => last.ret.val = <<>>

\* a range over a merge: the list is not empty, a merge commit is in range,
\* and to reaches an ancestor of from other than from itself
C2_Witness ==
    /\ RangeCall
    /\ last.ret.val # <<>>
    /\ \E c \in Ancestors(RangeTo) \ Ancestors(RangeFrom) : Len(commits[c].parents) = 2
    /\ \E c \in (Ancestors(RangeFrom) \cap Ancestors(RangeTo)) \ {RangeFrom} :
          ChangesFiles(c)

\* C3: in the list returned by get_commits_in_range an ancestor comes before
\* its descendant, whatever the commit times are.
C3_AncestorFirst ==
    RangeCall =>
        \A i, j \in 1..Len(RangeListed) :
            i < j => RangeListed[j] \notin Ancestors(RangeListed[i])

----------------------------------------------------------------------------
(* SpecParent: get_parent_ref_or_empty, resolve_ref, get_range_diff and    *)
(* get_commit on histories of a few commits (roots, chains, merges) with   *)
(* HEAD on any of them, for references HEAD, full ids and ":/m", with and  *)
(* without a '^' suffix and surrounding whitespace.                        *)

ParentMaxCommits == 3

ParentBases == {HeadStr, <<":", "/", "m">>} \cup {OidStr(i) : i \in 1..ParentMaxCommits}

ParentRefs ==
    {pad \o b \o suffix \o pad :
        pad \in {<<>>, <<" ">>}, b \in ParentBases, suffix \in {<<>>, <<"^">>}}

ParentParents ==
    {<<>>} \cup {<<a>> : a \in 1..ParentMaxCommits}
           \cup {<<a, b>> : a, b \in 1..ParentMaxCommits}

InitParent == EmptyRepo /\ last = NoCall

ParentExtCommit ==
    ExtCommit(ParentMaxCommits, ParentParents,
              {TreeOf(1), TreeOf(2), [TreeOf(1) EXCEPT ![CargoLock] = 1]}, {0}, {<<"m">>})

ParentGetParentRefOrEmpty == GetParentRefOrEmpty(ParentRefs)

ParentResolveRef == ResolveRef({b \o <<"^">> : b \in ParentBases})

ParentGetRangeDiff ==
    GetRangeDiff({EmptyTreeId} \cup {b \o <<"^">> : b \in ParentBases}, ParentBases)

ParentGetCommit == GetCommit(ParentBases)

NextParent ==
    \/ ParentExtCommit
    \/ ExtReset
    \/ ParentGetParentRefOrEmpty
    \/ ParentResolveRef
    \/ ParentGetRangeDiff
    \/ ParentGetCommit
    \/ Return

SpecParent == InitParent /\ [][NextParent]_vars

\* C5: for a root commit R, get_range_diff(get_parent_ref_or_empty(R), R,
\* false) succeeds and returns the diff text of get_commit(R).
C5_RootRangeDiff ==
    (/\ last.op = "get_range_diff"
     /\ ~last.args[3]
     /\ ResolveCommit(last.args[2]) # 0
     /\ commits[ResolveCommit(last.args[2])].parents = <<>>
     /\ get_parent_ref_or_empty(last.args[2]) = Ok(last.args[1]))
    => /\ IsOk(last.ret)
       /\ last.ret.val = get_commit(last.args[2]).val.diff

\* C6: get_parent_ref_or_empty on a reference that names a root commit
\* returns the empty-tree id; on one that names a commit with a parent it
\* returns the trimmed reference followed by '^', and resolve_ref of what
\* it returned gives the id of the commit's first parent.
C6_ParentRefResolves ==
    (/\ last.op = "get_parent_ref_or_empty"
     /\ ResolveCommit(Trim(last.args[1])) # 0)
    => LET c == ResolveCommit(Trim(last.args[1]))
       IN  /\ IsOk(last.ret)
           /\ IF commits[c].parents = <<>>
              THEN last.ret.val = EmptyTreeId
              ELSE /\ last.ret.val = Trim(last.args[1]) \o <<"^">>
                   /\ resolve_ref(last.ret.val)
                        = Ok(OidStr(commits[c].parents[1]))

\* what does hold: the same for the references that are HEAD or a full id,
\* with or without '^' suffixes and surrounding whitespace
PlainParentRefResolves ==
    (last.op = "get_parent_ref_or_empty" /\ ~StrContains(last.args[1], <<":">>))
    => C6_ParentRefResolves

----------------------------------------------------------------------------
(* SpecStage: files written, staged (also paths that have no file) and     *)
(* committed through one backend instance, and the staged and unstaged     *)
(* diffs read back.                                                        *)

StageMaxPaths == 2

StageMaxCommits == 2

StagePaths == {PathA, CargoLock}

InitStage == EmptyRepo /\ last = NoCall

StageWriteFile == WriteFile(StagePaths, {0, 1})

StageStageFiles == StageFiles(SeqsUpTo(StagePaths, StageMaxPaths))

StageCommit == Commit(StageMaxCommits, {<<"m">>}, {0})

StageGetCommit == GetCommit({HeadStr})

NextStage ==
    \/ StageWriteFile
    \/ StageStageFiles
    \/ StageCommit
    \/ GetWorkingTreeDiff
    \/ StageGetCommit
    \/ ExtConfig
    \/ Return

SpecStage == InitStage /\ [][NextStage]_vars

\* C4: when stage_files fails on one of the requested paths, none of them
\* is staged: the index that a following commit and get_working_tree_diff
\* (true) on the same backend instance read is the one from before the
\* call, and so is the staged diff.
C4_FailedStageStagesNothing ==
    (last.op = "stage_files" /\ ~IsOk(last.ret))
    => /\ index = last.pre.index
       /\ get_working_tree_diff(TRUE)
            = Ok(RenderPatch(diff_tree_to_tree(HeadTree, last.pre.index)))

\* the guidance commit gives for the identity setting that is missing
ConfigGuidance ==
    IF ~config.name
    THEN "git user.name not configured. Run: git config user.name \"Your Name\""
    ELSE "git user.email not configured. Run: git config user.email \"you@example.com\""

\* C11: with user.name or user.email not configured, commit(message) returns
\* Other with the configuration guidance and changes nothing: no tree and
\* no commit is written, HEAD and the index are as before the call.
C11_UnconfiguredCommitChangesNothing ==
    (last.op = "commit" /\ (~config.name \/ ~config.email))
    => /\ last.ret.kind = "Other"
       /\ last.ret.msg = ConfigGuidance
       /\ odb_trees = last.pre.odb_trees
       /\ Len(commits) = last.pre.ncommits
       /\ head = last.pre.head
       /\ index = last.pre.index
       /\ index_file = last.pre.index_file

\* commit was refused for the missing email while a change was staged that
\* no tree in the object database holds yet
C11_Witness ==
    /\ last.op = "commit"
    /\ config.name
    /\ ~config.email
    /\ last.ret.kind = "Other"
    /\ index \notin odb_trees
    /\ index # HeadTree

----------------------------------------------------------------------------
(* SpecCommit: a file edited, staged and committed several times with      *)
(* messages that have newlines before and after their text, HEAD and the   *)
(* new commit read back.                                                   *)

CommitMaxCommits == 3

CommitMaxMessage == 2

CommitMessages == SeqsUpTo({NL, "a"}, CommitMaxMessage) \ {<<>>}

InitCommit == EmptyRepo /\ last = NoCall

CommitWriteFile == WriteFile({PathA}, {0, 1})

CommitStageFiles == StageFiles({<<>>, <<PathA>>})

CommitCommit == Commit(CommitMaxCommits, CommitMessages, {0})

CommitGetCommit == GetCommit({HeadStr})

CommitResolveRef == ResolveRef({HeadStr})

NextCommit ==
    \/ CommitWriteFile
    \/ CommitStageFiles
    \/ CommitCommit
    \/ CommitGetCommit
    \/ CommitResolveRef
    \/ Return

SpecCommit == InitCommit /\ [][NextCommit]_vars

\* the message without the newline characters at its end
WithoutTrailingNewlines(m) ==
    LET keep == {i \in 1..Len(m) : m[i] # NL}
    IN  SubSeq(m, 1, IF keep = {} THEN 0 ELSE CHOOSE i \in keep : \A j \in keep : j <= i)

\* a commit call that succeeded
CommitCall == last.op = "commit" /\ IsOk(last.ret)

\* C9: after a successful stage_files and a successful commit(message), the
\* returned id is not the id HEAD had before the commit, and get_commit of
\* the returned id reports the message passed in without its trailing
\* newline characters.
C9_CommitReportsMessage ==
    (CommitCall /\ last.pre.index_file # EmptyTree)
    => /\ last.pre.head # 0 => last.ret.val # OidStr(last.pre.head)
       /\ IsOk(get_commit(last.ret.val))
       /\ get_commit(last.ret.val).val.commit_id = last.ret.val
       /\ get_commit(last.ret.val).val.message = WithoutTrailingNewlines(last.args[1])

\* what does hold: the same for the messages that do not begin with a newline
PlainMessageReported ==
    (CommitCall /\ Head(last.args[1]) # NL)
    => get_commit(last.ret.val).val.message = WithoutTrailingNewlines(last.args[1])

\* the chain of first parents from commit c, c first
RECURSIVE FirstParentChain(_)
FirstParentChain(c) ==
    IF c = 0 THEN <<>>
    ELSE <<c>> \o FirstParentChain(IF commits[c].parents = <<>> THEN 0
                                   ELSE commits[c].parents[1])

\* C10: a successful commit(message) creates a commit whose only parent is
\* the commit HEAD had before the call (none when HEAD was unborn) and moves
\* HEAD to it, so that resolve_ref("HEAD") gives the returned id; the chain
\* of first parents from HEAD lists the commits created so far, the last
\* created first (every commit here is created by commit(), in id order).
C10_CommitExtendsHead ==
    CommitCall
    => /\ commits[CommitOfId(last.ret.val)].parents
            = (IF last.pre.head = 0 THEN <<>> ELSE <<last.pre.head>>)
       /\ resolve_ref(HeadStr) = Ok(last.ret.val)
       /\ FirstParentChain(head) = [i \in 1..Len(commits) |-> Len(commits) + 1 - i]
       /\ Len(commits) = last.pre.ncommits + 1

\* the third commit in a row was made
C10_Witness ==
    /\ CommitCall
    /\ last.pre.head # 0
    /\ Len(FirstParentChain(head)) = CommitMaxCommits
    /\ resolve_ref(HeadStr) = Ok(last.ret.val)

----------------------------------------------------------------------------
(* SpecDiff: the four diff texts (get_commit, get_working_tree_diff staged *)
(* and unstaged, get_range_diff) over every pair of snapshots of three     *)
(* files: a lockfile, a file under node_modules/ and a source file, each   *)
(* absent, text, text with a line that is not UTF-8, or binary.  The two   *)
(* snapshots are the trees of a root commit and of its child; HEAD is at   *)
(* the child, the index holds the first snapshot again (staged by the      *)
(* user) and the working tree the second.                                  *)

InitDiff ==
    /\ config = [name |-> TRUE, email |-> TRUE]
    /\ last = NoCall
    /\ head = 2
    /\ \E t1, t2 \in Trees :
          /\ commits = <<[parents |-> <<>>, tree |-> t1, time |-> 0, message |-> <<"m">>],
                         [parents |-> <<1>>, tree |-> t2, time |-> 1, message |-> <<"m">>]>>
          /\ odb_trees = {t1, t2}
          /\ index = t1
          /\ index_file = t1
          /\ workdir = t2

DiffGetCommit == GetCommit({HeadStr, HeadStr \o <<"^">>})

DiffGetRangeDiff ==
    GetRangeDiff({HeadStr, HeadStr \o <<"^">>}, {HeadStr, HeadStr \o <<"^">>})

NextDiff ==
    \/ DiffGetCommit
    \/ GetWorkingTreeDiff
    \/ DiffGetRangeDiff
    \/ Return

SpecDiff == InitDiff /\ [][NextDiff]_vars

\* the claim's "excluded by the path filter"
FilterExcludes(p) == HasLockfileName(p) \/ UnderNodeModules(p)

\* a diff operation that succeeded
DiffCall ==
    /\ last.op \in {"get_commit", "get_working_tree_diff", "get_range_diff"}
    /\ IsOk(last.ret)

\* the text the call returned
DiffText == IF last.op = "get_commit" THEN last.ret.val.diff ELSE last.ret.val

\* the two snapshots the call compares, and the paths it looks at
DiffSides ==
    IF last.op = "get_commit"
    THEN LET c == ResolveCommit(Trim(last.args[1]))
         IN  [old |-> ParentTree(c), new |-> commits[c].tree, paths |-> RepoPaths]
    ELSE IF last.op = "get_range_diff"
    THEN LET f == ResolveCommit(last.args[1])
             t == ResolveCommit(last.args[2])
         IN  [old |-> commits[IF last.args[3] THEN merge_base(f, t) ELSE f].tree,
              new |-> commits[t].tree, paths |-> RepoPaths]
    ELSE IF last.args[1]
    THEN [old |-> HeadTree, new |-> index, paths |-> RepoPaths]
    ELSE [old |-> index, new |-> workdir, paths |-> {p \in RepoPaths : index[p] # 0}]

\* the lines of the text that belong to path p: origin and content
LinesOf(text, p) ==
    LET sel == SelectSeq(text, LAMBDA e : e.path = p)
    IN  [i \in 1..Len(sel) |-> <<sel[i].origin, sel[i].text>>]

\* the lines libgit2 prints for the change of path p between the two sides
ChangeLines(p) ==
    LET ls == DeltaLines([old_path |-> p, new_path |-> p,
                          old |-> DiffSides.old[p], new |-> DiffSides.new[p]])
    IN  [i \in 1..Len(ls) |-> <<ls[i].origin, ls[i].text>>]

\* C7: the text of get_commit().diff, get_working_tree_diff and
\* get_range_diff has no line of a change whose path the path filter
\* excludes, and has every line (file header, hunk header, binary marker,
\* content lines) of each changed file the filter does not exclude.
C7_ExcludedPathsAbsent ==
    DiffCall =>
        \A p \in RepoPaths :
            IF FilterExcludes(p) THEN LinesOf(DiffText, p) = <<>>
            ELSE IF p \in DiffSides.paths /\ DiffSides.old[p] # DiffSides.new[p]
            THEN LinesOf(DiffText, p) = ChangeLines(p)
            ELSE LinesOf(DiffText, p) = <<>>

\* a diff in which the lockfile, the file under node_modules/ and the source
\* file all changed content, and only the source file's lines are returned
C7_Witness ==
    /\ DiffCall
    /\ \A p \in RepoPaths :
          /\ p \in DiffSides.paths
          /\ DiffSides.old[p] # 0
          /\ DiffSides.new[p] # 0
          /\ DiffSides.old[p] # DiffSides.new[p]
    /\ DiffText # <<>>
    /\ \A i \in 1..Len(DiffText) : DiffText[i].path = PathA

----------------------------------------------------------------------------
(* SpecTime: the three time functions applied to inputs around their       *)
(* boundaries: elapsed seconds at every count of seconds, minutes, hours   *)
(* and days up to RelMaxCount; day numbers from 1900 to 2100 and around    *)
(* year 0; instants around the epoch, both ends of the years 0..9999 and   *)
(* leap days, at several times of day and timezone offsets.                *)

RelMaxCount == 800

DaysBefore == 26000

DaysAfter == 48000

DayWindow == 2

RelInputs ==
    {-1, -60, -86400, 90, 3700}
    \cup UNION {{k * u, k * u + u - 1} : k \in 0..RelMaxCount, u \in {1, 60, 3600, 86400}}

DayInputs ==
    (-DaysBefore..DaysAfter) \cup {d - 719468 : d \in (-400 * DayWindow)..(400 * DayWindow)}

\* 1970-01-01, 0000-01-01, 9999-12-31, 1900-02-28, 2000-02-29
GitTimeDays ==
    {a + d : a \in {0, -719528, 2932896, -25509, 11016}, d \in (-DayWindow)..DayWindow}

GitTimeInputs ==
    {<<I64(day, tod), off>> :
        day \in GitTimeDays, tod \in {0, 1, 59, 60, 3599, 3600, 43200, 86399},
        off \in {-720, -1, 0, 1, 840}}

InitTime ==
    /\ EmptyRepo
    /\ \/ \E x \in RelInputs :
             last = [op |-> "input", args |-> <<"format_relative_time", x>>,
                     ret |-> Ok(<<>>), pre |-> NoPre]
       \/ \E x \in DayInputs :
             last = [op |-> "input", args |-> <<"days_to_ymd", x>>,
                     ret |-> Ok(<<>>), pre |-> NoPre]
       \/ \E x \in GitTimeInputs :
             last = [op |-> "input", args |-> <<"format_git_time", x[1], x[2]>>,
                     ret |-> Ok(<<>>), pre |-> NoPre]

FormatRelativeTime ==
    /\ last.op = "input"
    /\ last.args[1] = "format_relative_time"
    /\ last' = [op |-> "format_relative_time", args |-> Tail(last.args),
                ret |-> Ok(format_relative_time(last.args[2])), pre |-> NoPre]
    /\ UNCHANGED <<commits, odb_trees, head, index, index_file, workdir, config>>

DaysToYmd ==
    /\ last.op = "input"
    /\ last.args[1] = "days_to_ymd"
    /\ last' = [op |-> "days_to_ymd", args |-> Tail(last.args),
                ret |-> Ok(days_to_ymd(last.args[2])), pre |-> NoPre]
    /\ UNCHANGED <<commits, odb_trees, head, index, index_file, workdir, config>>

FormatGitTime ==
    /\ last.op = "input"
    /\ last.args[1] = "format_git_time"
    /\ last' = [op |-> "format_git_time", args |-> Tail(last.args),
                ret |-> Ok(format_git_time(last.args[2], last.args[3])), pre |-> NoPre]
    /\ UNCHANGED <<commits, odb_trees, head, index, index_file, workdir, config>>

NextTime ==
    \/ FormatRelativeTime
    \/ DaysToYmd
    \/ FormatGitTime

SpecTime == InitTime /\ [][NextTime]_vars

\* the proleptic Gregorian calendar, counted from the year and month lengths
IsLeap(y) == (y % 4 = 0 /\ y % 100 # 0) \/ y % 400 = 0

MonthLen(y, m) ==
    IF m = 2 THEN (IF IsLeap(y) THEN 29 ELSE 28)
    ELSE IF m \in {4, 6, 9, 11} THEN 30 ELSE 31

\* the leap years among the years 1..(y - 1), negative when y < 1
LeapsBefore(y) == ((y - 1) \div 4) - ((y - 1) \div 100) + ((y - 1) \div 400)

RECURSIVE DaysBeforeMonth(_, _)
DaysBeforeMonth(y, m) ==
    IF m = 1 THEN 0 ELSE DaysBeforeMonth(y, m - 1) + MonthLen(y, m - 1)

\* the number of days from 1970-01-01 to the date y-m-d
DaysFromCivil(y, m, d) ==
    365 * (y - 1970) + LeapsBefore(y) - LeapsBefore(1970) + DaysBeforeMonth(y, m) + d - 1

IsDate(ymd) ==
    /\ ymd[2] \in 1..12
    /\ ymd[3] \in 1..MonthLen(ymd[1], ymd[2])

\* the calendar day after the date
NextDate(ymd) ==
    IF ymd[3] < MonthLen(ymd[1], ymd[2]) THEN <<ymd[1], ymd[2], ymd[3] + 1>>
    ELSE IF ymd[2] < 12 THEN <<ymd[1], ymd[2] + 1, 1>>
    ELSE <<ymd[1] + 1, 1, 1>>

\* C13: days_to_ymd(d) is the proleptic Gregorian date d days from
\* 1970-01-01: day 0 is 1970-01-01, the month is in 1..12, the day is within
\* the month's length (leap years included), the date counted back from the
\* calendar lies d days from the epoch, and d + 1 gives the following day.
C13_DaysToYmdIsGregorian ==
    last.op = "days_to_ymd"
    => LET d == last.args[1]
           ymd == last.ret.val
       IN  /\ d = 0 => ymd = <<1970, 1, 1>>
           /\ IsDate(ymd)
           /\ DaysFromCivil(ymd[1], ymd[2], ymd[3]) = d
           /\ days_to_ymd(d + 1) = NextDate(ymd)

\* the last day of February 1900, which is no leap year, and a day before
\* the epoch: the next day is 1 March
C13_Witness ==
    /\ last.op = "days_to_ymd"
    /\ last.args[1] < 0
    /\ last.ret.val = <<1900, 2, 28>>
    /\ days_to_ymd(last.args[1] + 1) = <<1900, 3, 1>>

\* the local instant of a call of format_git_time: the floor of the local
\* seconds over a day's seconds, and the seconds since local midnight
LocalInstant == I64Add(last.args[1], last.args[2] * 60)

\* the year whose days include day n
YearOfDay(n) ==
    LET a == 1970 + (n \div 365)
        b == 1970 + (n \div 366)
    IN  CHOOSE y \in ((IF a < b THEN a ELSE b) - 1)..((IF a < b THEN b ELSE a) + 1) :
            DaysFromCivil(y, 1, 1) <= n /\ n < DaysFromCivil(y + 1, 1, 1)

\* the date of day n, counted from 1970-01-01
CivilOfDay(n) ==
    LET y == YearOfDay(n)
        m == CHOOSE k \in 1..12 :
                 /\ DaysFromCivil(y, k, 1) <= n
                 /\ n < DaysFromCivil(y, k, 1) + MonthLen(y, k)
    IN  <<y, m, n - DaysFromCivil(y, m, 1) + 1>>

\* YYYY-MM-DD HH:MM:SS of a date and a count of seconds since midnight
Stamp(ymd, tod) ==
    ZeroPad(ymd[1], 4) \o <<"-">> \o ZeroPad(ymd[2], 2) \o <<"-">> \o ZeroPad(ymd[3], 2)
    \o Sp \o ZeroPad(tod \div 3600, 2) \o <<":">> \o ZeroPad((tod % 3600) \div 60, 2)
    \o <<":">> \o ZeroPad(tod % 60, 2)

\* C12: format_git_time prints the date and the time of day of one and the
\* same local instant (seconds plus offset), also when the local seconds
\* are negative.
C12_GitTimeIsLocalInstant ==
    last.op = "format_git_time"
    => last.ret.val = Stamp(CivilOfDay(LocalInstant.hi), LocalInstant.lo)

\* from the epoch on, and at every local midnight, the date and the time
\* printed are those of the local instant
C12_FromEpochOrMidnight ==
    (last.op = "format_git_time" /\ (LocalInstant.hi >= 0 \/ LocalInstant.lo = 0))
    => last.ret.val = Stamp(CivilOfDay(LocalInstant.hi), LocalInstant.lo)

\* before the epoch and off midnight, the date printed is the day after
C12_BeforeEpochNextDay ==
    (last.op = "format_git_time" /\ LocalInstant.hi < 0 /\ LocalInstant.lo > 0)
    => last.ret.val = Stamp(CivilOfDay(LocalInstant.hi + 1), LocalInstant.lo)

DigitChars == {DecimalDigits[i] : i \in 1..10}

\* the number a sequence of digits writes
RECURSIVE DigitsValue(_)
DigitsValue(t) ==
    IF t = <<>> THEN 0
    ELSE 10 * DigitsValue(SubSeq(t, 1, Len(t) - 1))
         + (CHOOSE i \in 0..9 : DecimalDigits[i + 1] = t[Len(t)])

\* C14: for a local instant in the years 0..9999, format_git_time returns
\* exactly 19 characters, YYYY-MM-DD HH:MM:SS: zero-padded digits, month
\* 01..12, day 01..31, hour 00..23, minute and second 00..59.
C14_GitTimeShape ==
    (/\ last.op = "format_git_time"
     /\ DaysFromCivil(0, 1, 1) <= LocalInstant.hi
     /\ LocalInstant.hi <= DaysFromCivil(9999, 12, 31))
    => LET t == last.ret.val
       IN  /\ Len(t) = 19
           /\ t[5] = "-" /\ t[8] = "-" /\ t[11] = " " /\ t[14] = ":" /\ t[17] = ":"
           /\ \A i \in (1..19) \ {5, 8, 11, 14, 17} : t[i] \in DigitChars
           /\ DigitsValue(SubSeq(t, 6, 7)) \in 1..12
           /\ DigitsValue(SubSeq(t, 9, 10)) \in 1..31
           /\ DigitsValue(SubSeq(t, 12, 13)) \in 0..23
           /\ DigitsValue(SubSeq(t, 15, 16)) \in 0..59
           /\ DigitsValue(SubSeq(t, 18, 19)) \in 0..59

\* the first instant of the year 0, long before the epoch
C14_Witness ==
    /\ last.op = "format_git_time"
    /\ LocalInstant.hi = DaysFromCivil(0, 1, 1)
    /\ last.ret.val = <<"0", "0", "0", "0", "-", "0", "1", "-", "0", "1", " ", "0", "0", ":", "0", "0", ":", "0", "0">>

\* the last second of the year 9999
C14_LastSecondReached ==
    /\ last.op = "format_git_time"
    /\ last.ret.val = <<"9", "9", "9", "9", "-", "1", "2", "-", "3", "1", " ", "2", "3", ":", "5", "9", ":", "5", "9">>

\* the words of a relative time: magnitude, unit label, "ago"
RelWords == StrSplit(last.ret.val, Sp)

RelMagnitude == DigitsValue(RelWords[1])

RelCall == last.op = "format_relative_time" /\ last.args[1] >= 0

UnitNames == {<<"s", "e", "c", "o", "n", "d">>, <<"m", "i", "n", "u", "t", "e">>, <<"h", "o", "u", "r">>, <<"d", "a", "y">>, <<"w", "e", "e", "k">>, <<"m", "o", "n", "t", "h">>, <<"y", "e", "a", "r">>}

Plural(unit) == unit \o <<"s">>

\* C15: for every non-negative elapsed value the unit label is singular
\* exactly when the printed magnitude is 1 and plural otherwise, in every
\* unit, seconds included.
C15_SingularExactlyAtOne ==
    RelCall
    => /\ Len(RelWords) = 3
       /\ RelWords[2] \in (IF RelMagnitude = 1 THEN UnitNames
                           ELSE {Plural(unit) : unit \in UnitNames})

\* from one minute on the label is singular exactly at magnitude 1
C15_SingularFromOneMinute ==
    (RelCall /\ last.args[1] >= 60)
    => RelWords[2] \in (IF RelMagnitude = 1 THEN UnitNames
                        ELSE {Plural(unit) : unit \in UnitNames})

\* below one minute the label is "seconds" whatever the magnitude
C15_SecondsAlwaysPlural ==
    (RelCall /\ last.args[1] < 60) => RelWords[2] = <<"s", "e", "c", "o", "n", "d", "s">>

\* the unit and the magnitude of s >= 0 by the first matching threshold
RelUnitOf(s) ==
    LET days == s \div 86400
    IN  IF s < 60 THEN <<s, <<"s", "e", "c", "o", "n", "d">>>>
        ELSE IF s \div 60 < 60 THEN <<s \div 60, <<"m", "i", "n", "u", "t", "e">>>>
        ELSE IF s \div 3600 < 24 THEN <<s \div 3600, <<"h", "o", "u", "r">>>>
        ELSE IF days < 7 THEN <<days, <<"d", "a", "y">>>>
        ELSE IF days \div 7 < 4 THEN <<days \div 7, <<"w", "e", "e", "k">>>>
        ELSE IF days \div 30 < 12 THEN <<days \div 30, <<"m", "o", "n", "t", "h">>>>
        ELSE <<days \div 365, <<"y", "e", "a", "r">>>>

\* C16: a negative elapsed value gives "in the future"; otherwise the unit
\* is picked by the first matching threshold with truncating division and
\* the magnitude is the quotient in that unit; 0 gives "0 seconds ago", 90
\* gives "1 minute ago" and 3700 gives "1 hour ago".
C16_UnitByThreshold ==
    last.op = "format_relative_time"
    => LET s == last.args[1]
           t == last.ret.val
       IN  /\ s < 0 => t = <<"i", "n", " ", "t", "h", "e", " ", "f", "u", "t", "u", "r", "e">>
           /\ s >= 0 =>
                /\ Len(RelWords) = 3
                /\ RelWords[1] = Display(RelUnitOf(s)[1])
                /\ RelWords[2] \in {RelUnitOf(s)[2], Plural(RelUnitOf(s)[2])}
                /\ RelWords[3] = <<"a", "g", "o">>
           /\ s = 0 => t = <<"0", " ", "s", "e", "c", "o", "n", "d", "s", " ", "a", "g", "o">>
           /\ s = 90 => t = <<"1", " ", "m", "i", "n", "u", "t", "e", " ", "a", "g", "o">>
           /\ s = 3700 => t = <<"1", " ", "h", "o", "u", "r", " ", "a", "g", "o">>

\* twelve months of thirty days have passed, a year has not: years, magnitude 0
C16_YearsFromTwelveMonths ==
    /\ last.op = "format_relative_time"
    /\ last.args[1] \div 86400 = 360
    /\ RelWords[2] = Plural(<<"y", "e", "a", "r">>)

\* ninety seconds are one minute
C16_Witness ==
    /\ last.op = "format_relative_time"
    /\ last.args[1] = 90
    /\ last.ret.val = <<"1", " ", "m", "i", "n", "u", "t", "e", " ", "a", "g", "o">>

\* C17: for every elapsed value of 60 seconds or more the printed magnitude
\* is at least 1, also at 28 and 29 days and at 360 to 364 days.
C17_MagnitudeAtLeastOne ==
    (RelCall /\ last.args[1] >= 60) => RelMagnitude >= 1

\* the magnitude is 0 exactly at 28 and 29 days and from 360 to 364 days
C17_ZeroMagnitudeDays ==
    (RelCall /\ last.args[1] >= 60)
    => (RelMagnitude = 0 <=> (last.args[1] \div 86400) \in {28, 29} \cup (360..364))

----------------------------------------------------------------------------
(* SpecRange: range diffs and merge bases over every history of up to      *)
(* RangeMaxCommits commits: chains, diverged branches, merges and          *)
(* unrelated roots, with file a in one of two versions.                    *)

RangeMaxCommits == 4

RangeParents ==
    {<<>>} \cup {<<a>> : a \in 1..RangeMaxCommits}
           \cup {<<a, b>> : a, b \in 1..RangeMaxCommits}

RangeRefs == {OidStr(i) : i \in CommitIds}

InitRange == EmptyRepo /\ last = NoCall

NextRange ==
    \/ ExtCommit(RangeMaxCommits, RangeParents, {TreeOf(1), TreeOf(2)}, {0}, {<<"m">>})
    \/ GetRangeDiff(RangeRefs, RangeRefs)
    \/ GetMergeBase(RangeRefs, RangeRefs)
    \/ Return

SpecRange == InitRange /\ [][NextRange]_vars

RangeDiffCall ==
    /\ last.op = "get_range_diff"
    /\ ResolveCommit(last.args[1]) # 0
    /\ ResolveCommit(last.args[2]) # 0

\* C18: for a reference X that resolves to a commit, get_range_diff(X, X,
\* false) and get_range_diff(X, X, true) succeed with the empty string.
C18_SameRefEmptyDiff ==
    (RangeDiffCall /\ last.args[1] = last.args[2]) => last.ret = Ok(<<>>)

\* a three-dot diff of a commit against itself, the commit having changed
\* file a against its parent
C18_Witness ==
    /\ RangeDiffCall
    /\ last.args[1] = last.args[2]
    /\ last.args[3]
    /\ LET c == ResolveCommit(last.args[1])
       IN  /\ commits[c].parents # <<>>
           /\ commits[commits[c].parents[1]].tree # commits[c].tree
    /\ last.ret = Ok(<<>>)

\* C19: when from and to have a common ancestor, the three-dot diff is the
\* two-dot diff from M = get_merge_base(from, to) to `to`; so it is the
\* two-dot diff of from and to when from is an ancestor of to, and it is
\* empty when only from's side changed anything since M. When they have no
\* common ancestor the three-dot call fails with Other.
C19_ThreeDotFromMergeBase ==
    (RangeDiffCall /\ last.args[3])
    => LET from == last.args[1]
           to == last.args[2]
           fc == ResolveCommit(from)
           tc == ResolveCommit(to)
           M == get_merge_base(from, to)
       IN  IF Ancestors(fc) \cap Ancestors(tc) = {}
           THEN last.ret.kind = "Other"
           ELSE /\ IsOk(M)
                /\ last.ret = get_range_diff(M.val, to, FALSE)
                /\ fc \in Ancestors(tc) => last.ret = get_range_diff(from, to, FALSE)
                /\ commits[ResolveCommit(M.val)].tree = commits[tc].tree
                     => last.ret = Ok(<<>>)

\* a diverged history: neither is an ancestor of the other, only from's side
\* changed file a since the merge base, and the two-dot diff shows the change
C19_Witness ==
    /\ RangeDiffCall
    /\ last.args[3]
    /\ LET fc == ResolveCommit(last.args[1])
           tc == ResolveCommit(last.args[2])
       IN  /\ fc \notin Ancestors(tc)
           /\ tc \notin Ancestors(fc)
           /\ merge_base(fc, tc) # 0
           /\ commits[merge_base(fc, tc)].tree = commits[tc].tree
           /\ commits[fc].tree # commits[tc].tree
    /\ last.ret = Ok(<<>>)
    /\ get_range_diff(last.args[1], last.args[2], FALSE) # Ok(<<>>)

\* two unrelated roots: the three-dot call fails with Other
C19_UnrelatedReached ==
    /\ RangeDiffCall
    /\ last.args[3]
    /\ Ancestors(ResolveCommit(last.args[1])) \cap Ancestors(ResolveCommit(last.args[2])) = {}
    /\ last.ret.kind = "Other"

\* both sides changed file a since the merge base: the diff has to's change
C19_BothSidesReached ==
    /\ RangeDiffCall
    /\ last.args[3]
    /\ last.ret.kind = "Ok"
    /\ last.ret.val # <<>>
    /\ last.ret # get_range_diff(last.args[1], last.args[2], FALSE)

----------------------------------------------------------------------------
(* SpecLog: get_commits_in_range over histories of up to LogMaxCommits     *)
(* commits of at most one parent each, with one-line messages, messages of *)
(* several lines and paragraphs, and leading and trailing newlines.        *)

LogMaxCommits == 3

LogMessages ==
    {<<"a">>, <<"a", NL>>, <<"a", NL, "b">>, <<"a", NL, NL, "b">>, <<NL, "a">>}

LogRefs == {OidStr(i) : i \in CommitIds}

\* file a in two versions, and file a with a lockfile beside it
LogTrees == {TreeOf(1), TreeOf(2), [TreeOf(1) EXCEPT ![CargoLock] = 1]}

InitLog == EmptyRepo /\ last = NoCall

NextLog ==
    \/ ExtCommit(LogMaxCommits, {<<>>} \cup {<<a>> : a \in 1..LogMaxCommits},
                 LogTrees, {0}, LogMessages)
    \/ GetCommitsInRange(LogRefs, LogRefs)
    \/ Return

SpecLog == InitLog /\ [][NextLog]_vars

\* the commits after from up to to, oldest first, when they are a chain
\* that starts on from
RECURSIVE ChainDownTo(_, _)
ChainDownTo(c, stop) ==
    IF c = stop \/ commits[c].parents = <<>> THEN <<>>
    ELSE Append(ChainDownTo(commits[c].parents[1], stop), c)

\* a linear history after from up to to, each commit changing a file
LinearRange ==
    /\ RangeCall
    /\ RangeFrom \in Ancestors(RangeTo)
    /\ RangeFrom # RangeTo
    /\ \A c \in Ancestors(RangeTo) \ Ancestors(RangeFrom) : ChangesFiles(c)

\* the first line of a message
FirstLine(msg) ==
    LET i == FindFrom(msg, <<NL>>, 1)
    IN  IF i = 0 THEN msg ELSE SubSeq(msg, 1, i - 1)

\* the entries but for their summaries: one per commit, oldest first
LogEntriesInOrder ==
    LET chain == ChainDownTo(RangeTo, RangeFrom)
        got == last.ret.val
    IN  /\ IsOk(last.ret)
        /\ Len(got) = Len(chain)
        /\ \A i \in 1..Len(chain) :
              /\ got[i].commit_id = OidStr(chain[i])
              /\ Len(got[i].commit_id) = 40
              /\ got[i].short_id = SubSeq(got[i].commit_id, 1, 7)
              /\ got[i].change_id = None

\* C20: for a linear history of N commits after from up to to, each with a
\* non-empty changed-file set, get_commits_in_range returns N entries,
\* oldest first; each entry's summary is the first line of its commit's
\* message, its commit_id the commit's 40-character id, its short_id the
\* first 7 characters of commit_id, and its change_id is absent.
C20_LinearRangeEntries ==
    LinearRange
    => /\ LogEntriesInOrder
       /\ \A i \in 1..Len(last.ret.val) :
             last.ret.val[i].summary
                 = FirstLine(commits[ChainDownTo(RangeTo, RangeFrom)[i]].message)

\* the entries are the N commits oldest first, with id, short id and no
\* change id as stated
C20_EntriesButSummary == LinearRange => LogEntriesInOrder

\* the summary is the first line when the message has nothing but newlines
\* after its first line
C20_SummaryOfOneLineMessages ==
    LinearRange
    => \A i \in 1..Len(last.ret.val) :
          LET msg == commits[ChainDownTo(RangeTo, RangeFrom)[i]].message
          IN  (msg # <<>> /\ msg[1] # NL /\ TrimEndMatches(msg, NL) = FirstLine(msg))
              => last.ret.val[i].summary = FirstLine(msg)

\* two commits listed
C20_TwoListed ==
    /\ LinearRange
    /\ IsOk(last.ret)
    /\ Len(last.ret.val) = 2

----------------------------------------------------------------------------
(* Commits without changes in a range (SpecWalk)                           *)

\* the commits after from up to to are a chain of one-parent commits on from
ChainRange ==
    /\ RangeCall
    /\ RangeFrom \in Ancestors(RangeTo)
    /\ \A c \in Ancestors(RangeTo) \ Ancestors(RangeFrom) : Len(commits[c].parents) = 1

\* C21: a commit without changed files between from and to is absent from
\* get_commits_in_range(from, to), and the commits with changes around it
\* are listed in the order they have without it: the list is the chain
\* after from up to to, oldest first, less its commits without changes.
C21_EmptyCommitSkipped ==
    ChainRange => RangeListed = SelectSeq(ChainDownTo(RangeTo, RangeFrom), ChangesFiles)

\* a commit with changes, a commit without, a commit with changes: two listed
C21_Witness ==
    /\ ChainRange
    /\ LET chain == ChainDownTo(RangeTo, RangeFrom)
       IN  /\ Len(chain) = 3
           /\ ChangesFiles(chain[1])
           /\ ~ChangesFiles(chain[2])
           /\ ChangesFiles(chain[3])
           /\ RangeListed = <<chain[1], chain[3]>>

----------------------------------------------------------------------------
(* SpecFiles: the changed-file lists of single references and of ranges,   *)
(* on a root commit and its child over every pair of trees of present and  *)
(* absent files; the two sides of a range are references that resolve,     *)
(* padded ones, empty ones, unknown names and names that start with '-'.   *)

FilesTrees == [RepoPaths -> {0, 1}]

FilesParts ==
    {HeadStr, HeadStr \o <<"^">>, OidStr(1), HeadStr \o Sp, <<>>, <<"x">>, <<"-", "x">>}

FilesRefs ==
    FilesParts
    \cup {a \o sep \o b : a \in FilesParts, b \in FilesParts, sep \in {Dot2, Dot3}}
    \cup {Sp \o a \o Dot2 \o b \o Sp : a \in FilesParts, b \in FilesParts}
    \cup {HeadStr \o Dot2 \o HeadStr \o Dot2 \o HeadStr, HeadStr \o Dot2 \o Dot2 \o HeadStr}

InitFiles ==
    /\ config = [name |-> TRUE, email |-> TRUE]
    /\ last = NoCall
    /\ head = 2
    /\ \E t1, t2 \in FilesTrees :
          /\ commits = <<[parents |-> <<>>, tree |-> t1, time |-> 0, message |-> <<"m">>],
                         [parents |-> <<1>>, tree |-> t2, time |-> 1, message |-> <<"m">>]>>
          /\ odb_trees = {t1, t2}
          /\ index = t2
          /\ index_file = t2
          /\ workdir = t2

\* the files of the trees, the directory of one of them, a name no tree has
FilesPaths == RepoPaths \cup {<<"n", "o", "d", "e", "_", "m", "o", "d", "u", "l", "e", "s">>, <<"b">>}

NextFiles ==
    \/ GetChangedFiles(FilesRefs)
    \/ GetFileContentAtRef(FilesParts \cup {Sp \o HeadStr}, FilesPaths)
    \/ GetRangeChangedFiles(FilesParts, FilesParts)
    \/ Return

SpecFiles == InitFiles /\ [][NextFiles]_vars

\* the reference of a get_changed_files call, as the operation reads it
FilesRef == Trim(last.args[1])

\* the two-dot or three-dot separator of the reference
FilesSep == IF StrContains(FilesRef, Dot3) THEN Dot3 ELSE Dot2

\* the reference is a range: it has a separator that splits it in two
FilesIsRange ==
    StrContains(FilesRef, Dot2) /\ Len(StrSplit(FilesRef, FilesSep)) = 2

FilesFrom == StrSplit(FilesRef, FilesSep)[1]

FilesTo == StrSplit(FilesRef, FilesSep)[2]

\* the paths at which two trees differ, in path order
DifferingPaths(t1, t2) == SelectSeq(PathOrder, LAMBDA p : t1[p] # t2[p])

\* two results are the same success or the same kind of failure
SameOutcome(r1, r2) == r1.kind = r2.kind /\ r1.val = r2.val

\* C22: get_changed_files takes its reference as a range exactly when a
\* '..' or '...' separator splits it in two, and then returns what
\* get_range_changed_files returns for the two sides, the files that differ
\* between the trees of the two commits; for any other reference it returns
\* the files that differ between the commit and its first parent (the empty
\* tree for a root commit).
C22_RangeOrSingleCommit ==
    last.op = "get_changed_files"
    => IF FilesIsRange
       THEN /\ SameOutcome(last.ret, get_range_changed_files(FilesFrom, FilesTo))
            /\ IsOk(last.ret)
                 => last.ret.val = DifferingPaths(commits[ResolveCommit(FilesFrom)].tree,
                                                  commits[ResolveCommit(FilesTo)].tree)
       ELSE IsOk(last.ret)
              => LET c == ResolveCommit(FilesRef)
                 IN  last.ret.val = DifferingPaths(ParentTree(c), commits[c].tree)

\* the statement holds when neither side of the range is padded with
\* whitespace
C22_UnpaddedSides ==
    (/\ last.op = "get_changed_files"
     /\ FilesIsRange
     /\ Trim(FilesFrom) = FilesFrom
     /\ Trim(FilesTo) = FilesTo)
    => SameOutcome(last.ret, get_range_changed_files(FilesFrom, FilesTo))

\* a three-dot range of two commits whose trees differ
C22_ThreeDotReached ==
    /\ last.op = "get_changed_files"
    /\ FilesIsRange
    /\ FilesSep = Dot3
    /\ IsOk(last.ret)
    /\ last.ret.val # <<>>

----------------------------------------------------------------------------
(* SpecWork: edits of the working tree, stage_files, commit and the two    *)
(* working tree diffs on one backend instance, with a source file and a    *)
(* lockfile each absent or in one of two versions.                         *)

WorkMaxCommits == 2

NextWork ==
    \/ WriteFile(StagePaths, {0, 1, 2})
    \/ StageFiles(SeqsUpTo(StagePaths, StageMaxPaths))
    \/ Commit(WorkMaxCommits, {<<"m">>}, {0})
    \/ GetWorkingTreeDiff
    \/ Return

SpecWork == InitStage /\ [][NextWork]_vars

\* the lines libgit2 prints for the change of path p from blob a to blob b
LinesOfChange(p, a, b) ==
    LET ls == DeltaLines([old_path |-> p, new_path |-> p, old |-> a, new |-> b])
    IN  [i \in 1..Len(ls) |-> <<ls[i].origin, ls[i].text>>]

\* C23: get_working_tree_diff(true) is the diff from the tree of the last
\* commit to the index and get_working_tree_diff(false) the diff from the
\* index to the working tree, each of nothing else: a file whose staged
\* content differs from the last commit's is in the staged diff, it is in
\* the unstaged diff only as far as the working tree differs from what was
\* staged, and when the three snapshots are equal both calls succeed with
\* the empty string.
C23_StagedAndUnstaged ==
    last.op = "get_working_tree_diff"
    => /\ IsOk(last.ret)
       /\ \A p \in RepoPaths :
             LET old == IF last.args[1] THEN HeadTree[p] ELSE index[p]
                 new == IF last.args[1] THEN index[p] ELSE workdir[p]
             IN  LinesOf(last.ret.val, p)
                   = IF old # new /\ ~FilterExcludes(p) /\ (last.args[1] \/ index[p] # 0)
                     THEN LinesOfChange(p, old, new)
                     ELSE <<>>
       /\ (HeadTree = index /\ index = workdir) => last.ret.val = <<>>

\* file a was committed, changed and staged, and then edited again: the
\* staged diff has the staged change, not the later edit
C23_Witness ==
    /\ last.op = "get_working_tree_diff"
    /\ last.args[1]
    /\ head # 0
    /\ HeadTree[PathA] = 1 /\ index[PathA] = 2 /\ workdir[PathA] = 0
    /\ LinesOf(last.ret.val, PathA) = LinesOfChange(PathA, 1, 2)

\* in the same situation the unstaged diff has the later edit only
C23_UnstagedReached ==
    /\ last.op = "get_working_tree_diff"
    /\ ~last.args[1]
    /\ HeadTree[PathA] = 1 /\ index[PathA] = 2 /\ workdir[PathA] = 0
    /\ LinesOf(last.ret.val, PathA) = LinesOfChange(PathA, 2, 0)

\* a clean repository after a commit: both diffs are empty
C23_CleanReached ==
    /\ last.op = "get_working_tree_diff"
    /\ head # 0
    /\ HeadTree = index /\ index = workdir
    /\ last.ret = Ok(<<>>)

\* C28: right after a successful commit the staged diff is the empty string
\* and the unstaged diff is the text it was before the commit.
C28_AfterCommit ==
    (last.op = "commit" /\ IsOk(last.ret))
    => /\ get_working_tree_diff(TRUE) = Ok(<<>>)
       /\ get_working_tree_diff(FALSE)
            = working_tree_diff(IF last.pre.head = 0 THEN EmptyTree
                                ELSE commits[last.pre.head].tree,
                                last.pre.index, last.pre.workdir, FALSE)

\* a commit of a staged change made while the working tree holds a further
\* edit of the file: the unstaged diff is not empty
C28_Witness ==
    /\ last.op = "commit"
    /\ IsOk(last.ret)
    /\ commits[head].parents # <<>>
    /\ commits[head].tree # commits[commits[head].parents[1]].tree
    /\ get_working_tree_diff(TRUE) = Ok(<<>>)
    /\ get_working_tree_diff(FALSE).val # <<>>

----------------------------------------------------------------------------
(* The content of a file at a reference (SpecFiles)                        *)

\* the reference of the call resolves to a commit and passes validation
ContentRefResolves ==
    /\ ~StartsWith(Trim(last.args[1]), <<"-">>)
    /\ ResolveCommit(Trim(last.args[1])) # 0

\* the path names a file in the tree of the commit
ContentIsFile ==
    LET tree == commits[ResolveCommit(Trim(last.args[1]))].tree
    IN  last.args[2] \in RepoPaths /\ tree[last.args[2]] # 0

\* C24: get_file_content_at_ref returns FileNotFound when the reference
\* resolves to a commit and the path is absent from the commit's tree or is
\* no file there (a directory), and InvalidRef when the reference fails
\* validation or does not resolve, whatever the path.
C24_FileNotFoundOrInvalidRef ==
    last.op = "get_file_content_at_ref"
    => IF ~ContentRefResolves THEN last.ret.kind = "InvalidRef"
       ELSE IF ~ContentIsFile THEN last.ret.kind = "FileNotFound"
       ELSE IsOk(last.ret)

\* the path is the directory of a file of the commit
C24_Witness ==
    /\ last.op = "get_file_content_at_ref"
    /\ ContentRefResolves
    /\ commits[ResolveCommit(Trim(last.args[1]))].tree[PathVendor] # 0
    /\ StartsWith(PathVendor, last.args[2] \o <<"/">>)
    /\ last.ret.kind = "FileNotFound"

\* a reference that does not resolve with the path of a file of HEAD
C24_InvalidRefReached ==
    /\ last.op = "get_file_content_at_ref"
    /\ ~ContentRefResolves
    /\ last.args[2] \in RepoPaths
    /\ commits[head].tree[last.args[2]] # 0
    /\ last.ret.kind = "InvalidRef"

----------------------------------------------------------------------------
(* The text of a diff as the concatenation of its lines (SpecDiff)         *)

\* the lines libgit2 emits for the call, less those of excluded paths
RetainedLines ==
    SelectSeq(PatchLines(DeltasFrom(DiffSides.old, DiffSides.new, DiffSides.paths, 1)),
              LAMBDA l : ~FilterExcludes(l.new_path) /\ ~FilterExcludes(l.old_path))

\* the text has one piece per retained line, in emission order, each with
\* the origin character in front exactly for the origins '+', '-' and ' '
PiecesInOrder ==
    /\ Len(DiffText) = Len(RetainedLines)
    /\ \A i \in 1..Len(DiffText) :
          /\ DiffText[i].origin = RetainedLines[i].origin
          /\ DiffText[i].text = RetainedLines[i].text
          /\ DiffText[i].prefix = IF RetainedLines[i].origin \in {"+", "-", " "}
                                  THEN RetainedLines[i].origin ELSE ""

\* C25: the diff text is the concatenation, in emission order, of every
\* retained line: its origin character and its content for the origins
\* '+', '-' and ' ', its content alone for every other origin; no retained
\* line's content is dropped, also when it is not valid UTF-8; the same for
\* the three diff operations.
C25_TextIsRetainedLines ==
    DiffCall => /\ PiecesInOrder
                /\ \A i \in 1..Len(DiffText) : DiffText[i].body

\* every retained line has its piece, and the content of every line that is
\* valid UTF-8 is in it
C25_Utf8ContentKept ==
    DiffCall => /\ PiecesInOrder
                /\ \A i \in 1..Len(DiffText) :
                      DiffText[i].body <=> RetainedLines[i].text \notin NonUtf8Lines

----------------------------------------------------------------------------
(* Listed commits and their diffs (SpecLog)                                *)

\* the diff get_commit gives for the i-th entry of the returned list
DiffOfListed(i) == get_commit(last.ret.val[i].commit_id).val.diff

\* C26: every commit listed by get_commits_in_range has a non-empty
\* get_commit(commit_id).diff, also a commit that changes only paths the
\* path filter excludes.
C26_ListedHaveDiff ==
    RangeCall => \A i \in 1..Len(last.ret.val) : DiffOfListed(i) # <<>>

\* a listed commit has an empty diff exactly when every path it changes is
\* excluded by the path filter
C26_EmptyDiffOnlyExcluded ==
    RangeCall
    => \A i \in 1..Len(last.ret.val) :
          DiffOfListed(i) = <<>>
            <=> \A p \in RepoPaths :
                   commits[RangeListed[i]].tree[p] # ParentTree(RangeListed[i])[p]
                     => FilterExcludes(p)

----------------------------------------------------------------------------
(* The diff of a commit and the range diff from its parent (SpecParent)    *)

\* get_commit on HEAD or on a commit id succeeded for a commit with a parent
CommitWithParentCall ==
    /\ last.op = "get_commit"
    /\ IsOk(last.ret)
    /\ ~StrContains(last.args[1], <<":">>)
    /\ commits[ResolveCommit(last.args[1])].parents # <<>>

\* C27: for a commit C that has a parent, get_range_diff from
\* get_parent_ref_or_empty(C) to C, two-dot, returns the text of
\* get_commit(C).diff, merge commits included.
C27_RangeDiffFromParentIsCommitDiff ==
    CommitWithParentCall
    => LET parent == get_parent_ref_or_empty(last.args[1])
       IN  /\ IsOk(parent)
           /\ get_range_diff(parent.val, last.args[1], FALSE) = Ok(last.ret.val.diff)

\* a merge of two commits with different trees that changes file a against
\* its first parent
C27_Witness ==
    /\ CommitWithParentCall
    /\ LET c == ResolveCommit(last.args[1])
       IN  /\ Len(commits[c].parents) = 2
           /\ commits[commits[c].parents[1]].tree # commits[commits[c].parents[2]].tree
    /\ last.ret.val.diff # <<>>

\* a commit that adds only a lockfile: both texts are empty
C27_ExcludedOnlyReached ==
    /\ CommitWithParentCall
    /\ LET c == ResolveCommit(last.args[1])
       IN  commits[c].tree # commits[commits[c].parents[1]].tree
    /\ last.ret.val.diff = <<>>

-----------------------------------------------------------------------------
(* What each operation leaves alone: every operation of the backend called  *)
(* on one repository, read-only calls repeated at once.                     *)

FrameMaxCommits == 2

\* the readings of the clock at get_commit_log_for_fzf; commits are made at 0
FrameClock == {59, 60}

FrameRefs == {HeadStr, <<"x">>}

FramePathSeqs == {<<PathA>>, <<CargoLock>>, <<PathA, CargoLock>>}

ReadOnlyOps ==
    {"get_commit", "get_working_tree_diff", "get_range_diff",
     "get_changed_files", "get_file_content_at_ref", "get_current_branch",
     "get_commit_log_for_fzf", "resolve_ref", "get_working_tree_changed_files",
     "get_merge_base", "get_range_changed_files", "get_parent_ref_or_empty",
     "get_commits_in_range"}

NextFrame ==
    \/ WriteFile(StagePaths, {0, 1})
    \/ StageFiles(FramePathSeqs)
    \/ Commit(FrameMaxCommits, {<<"m">>}, {0})
    \/ GetCommit(FrameRefs)
    \/ GetWorkingTreeDiff
    \/ GetRangeDiff(FrameRefs, {HeadStr})
    \/ GetChangedFiles(FrameRefs)
    \/ GetFileContentAtRef(FrameRefs, {PathA})
    \/ GetCurrentBranch
    \/ GetCommitLogForFzf(FrameClock)
    \/ ResolveRef(FrameRefs)
    \/ GetWorkingTreeChangedFiles
    \/ GetMergeBase(FrameRefs, {HeadStr})
    \/ GetRangeChangedFiles(FrameRefs, {HeadStr})
    \/ GetParentRefOrEmpty(FrameRefs)
    \/ GetCommitsInRange(FrameRefs, {HeadStr})
    \/ CallAgain(FrameClock)
    \/ Return

SpecFrame == InitStage /\ [][NextFrame]_vars

\* the call returned while the repository is as the call left it
InCall == last.op # "none"

\* the call is the second of two calls of one read-only operation with the
\* same arguments and nothing in between
Repeated == last.op \in ReadOnlyOps /\ last.pre.op = last.op /\ last.pre.args = last.args

\* HEAD, the index and the commits are as they were before the call
RepositoryKept ==
    /\ head = last.pre.head
    /\ index = last.pre.index
    /\ index_file = last.pre.index_file
    /\ Len(commits) = last.pre.ncommits

\* only stage_files changes the index, only commit moves HEAD or adds a commit
OnlyWriters ==
    /\ (InCall /\ (index # last.pre.index \/ index_file # last.pre.index_file))
           => last.op = "stage_files"
    /\ (InCall /\ (head # last.pre.head \/ Len(commits) # last.pre.ncommits))
           => last.op = "commit"

Range(f) == {f[i] : i \in DOMAIN f}

\* the lines of the log without their ages
WithoutAge(lines) ==
    [i \in 1..Len(lines) |-> [short_id |-> lines[i].short_id, summary |-> lines[i].summary]]

\* two results of one operation that are the same, the paths of
\* get_working_tree_changed_files taken as the set they stand for
SameResult(op, a, b) ==
    IF op = "get_working_tree_changed_files" /\ IsOk(a) /\ IsOk(b)
    THEN Range(a.val) = Range(b.val) /\ Len(a.val) = Len(b.val)
    ELSE a = b

\* two results of one operation that differ at most in what follows the
\* clock: the ages in the lines of the log
SameButClock(op, a, b) ==
    IF op = "get_commit_log_for_fzf" /\ IsOk(a) /\ IsOk(b)
    THEN WithoutAge(a.val) = WithoutAge(b.val)
    ELSE SameResult(op, a, b)

C29_ClockReached ==
    /\ Repeated
    /\ last.op = "get_commit_log_for_fzf"
    /\ IsOk(last.ret)
    /\ last.ret # last.pre.ret

\* the status paths are asked for twice and come in another order
C29_OrderReached ==
    /\ Repeated
    /\ last.op = "get_working_tree_changed_files"
    /\ last.ret # last.pre.ret

\* every other read-only operation repeats its result exactly
C29_OthersRepeatExactly ==
    (Repeated /\ last.op \notin {"get_commit_log_for_fzf", "get_working_tree_changed_files"})
        => last.ret = last.pre.ret

\* a stage_files call that fails leaves the index in memory changed
C29_StageChangesIndexReached ==
    last.op = "stage_files" /\ index # last.pre.index

-----------------------------------------------------------------------------
(* References with whitespace around them: the six operations that take a   *)
(* reference, called with padded and with trimmed references on a root and  *)
(* its child.                                                               *)

TrimNames == {HeadStr, HeadStr \o <<"^">>, OidStr(1), <<>>, <<"x">>, <<"-", "x">>}

\* each name as it is, with a space before, a newline after, and both
TrimRefs ==
    UNION {{r, Sp \o r, r \o <<NL>>, Sp \o r \o Sp} : r \in TrimNames}

NextTrim ==
    \/ GetRangeDiff(TrimRefs, TrimRefs)
    \/ GetCommitsInRange(TrimRefs, TrimRefs)
    \/ GetRangeChangedFiles(TrimRefs, TrimRefs)
    \/ GetMergeBase(TrimRefs, TrimRefs)
    \/ ResolveRef(TrimRefs)
    \/ GetCommit(TrimRefs)
    \/ Return

SpecTrim == InitFiles /\ [][NextTrim]_vars

TrimOps ==
    {"get_range_diff", "get_commits_in_range", "get_range_changed_files",
     "get_merge_base", "resolve_ref", "get_commit"}

\* the result of the operation for the trimmed form of the references in args
ResultForTrimmed(op, args) ==
    IF op = "get_range_diff"
    THEN get_range_diff(Trim(args[1]), Trim(args[2]), args[3])
    ELSE IF op = "get_commits_in_range"
    THEN get_commits_in_range(Trim(args[1]), Trim(args[2]))
    ELSE IF op = "get_range_changed_files"
    THEN get_range_changed_files(Trim(args[1]), Trim(args[2]))
    ELSE IF op = "get_merge_base"
    THEN get_merge_base(Trim(args[1]), Trim(args[2]))
    ELSE IF op = "resolve_ref"
    THEN resolve_ref(Trim(args[1]))
    ELSE get_commit(Trim(args[1]))

\* some reference of the call has whitespace around it
PaddedCall ==
    /\ last.op \in TrimOps
    /\ \E i \in 1..(IF last.op \in {"resolve_ref", "get_commit"} THEN 1 ELSE 2) :
        Trim(last.args[i]) # last.args[i]

\* C30: each of get_range_diff, get_commits_in_range, get_range_changed_files,
\* get_merge_base, resolve_ref and get_commit returns for references with
\* leading or trailing whitespace what it returns for their trimmed forms.
C30_PaddedAsTrimmed ==
    last.op \in TrimOps => last.ret = ResultForTrimmed(last.op, last.args)

\* the five operations that trim their references return for padded
\* references what they return for the trimmed ones
C30_TrimmingOperations ==
    (last.op \in TrimOps \ {"get_range_diff"})
        => last.ret = ResultForTrimmed(last.op, last.args)

\* a padded call of a trimming operation that succeeds
C30_PaddedReached ==
    /\ PaddedCall
    /\ last.op = "get_commits_in_range"
    /\ IsOk(last.ret)
    /\ last.ret.val # <<>>

\* get_range_diff of padded references that name commits fails with
\* InvalidRef, and agrees with the trimmed call in every other case
C30_RangeDiffRejectsPadded ==
    last.op = "get_range_diff"
        => IF IsOk(ResultForTrimmed(last.op, last.args)) /\ PaddedCall
           THEN last.ret.kind = "InvalidRef"
           ELSE last.ret.kind = ResultForTrimmed(last.op, last.args).kind

\* get_range_diff of a padded reference whose trimmed form gives a diff
C30_RangeDiffPaddedReached ==
    /\ PaddedCall
    /\ last.op = "get_range_diff"
    /\ IsOk(ResultForTrimmed(last.op, last.args))
    /\ ResultForTrimmed(last.op, last.args).val # <<>>
    /\ ~IsOk(last.ret)

====
